---------------------------- MODULE Spec2Model ----------------------------
(***************************************************************************)
(* PeriodicTable: the element/isotope dataset (server/data/elements.ts),   *)
(* and the layout computed by the isotope views of the element modal       *)
(* (BohrModelView, IsotopeVisualizer, renderNucleusSwarm, ParticleMist,    *)
(* buildParticleDescriptors in components/PeriodicTable.tsx).              *)
(*                                                                         *)
(* Numbers.  JavaScript numbers that stay integral are TLA+ integers.  A   *)
(* value that comes out of a division is an exact fraction                 *)
(* [num |-> n, den |-> d] in lowest terms with d > 0; d = 0 stands for the *)
(* non-finite results of IEEE division (num = 1: Infinity, num = -1:       *)
(* -Infinity, num = 0: NaN), so a division by zero shows in the result     *)
(* instead of being lost.  Rounding of doubles is not modelled.            *)
(* Trigonometric results are kept as the argument handed to Math.sin and   *)
(* Math.cos (an angle as a fraction of a full turn, or in radians).        *)
(***************************************************************************)
EXTENDS Integers, Sequences, FiniteSets, TLC

VARIABLES
  moduleElements,   \* elements.ts: the element records built so far
  moduleIsotopes,   \* elements.ts: isotopes built for the element under construction
  element,          \* the tile's element handed to the click handler
  activeElement,    \* PeriodicTable state
  activeIsotope,    \* PeriodicTable state
  bohrView,         \* what BohrModelView rendered for the modal
  arenaView,        \* what IsotopeVisualizer rendered for the modal
  memo,             \* history: isotope -> views rendered for it since the modal opened
  request,          \* server: the request being answered
  response,         \* server: the answer sent for it
  earlier,          \* history: one earlier request of the server with its answer
  tableElements,    \* PeriodicTable state: elements
  loading,          \* PeriodicTable state
  error,            \* PeriodicTable state
  fetchCalls,       \* history: calls of fetchElements since the mount
  load,             \* the effect's load(): its phase and, once settled, what was fetched
  tableView,        \* what PeriodicTable rendered last
  category,         \* the category handed to pickPalette
  palette           \* what pickPalette returned for it

dataVars == <<moduleElements, moduleIsotopes>>
uiVars == <<element, activeElement, activeIsotope, bohrView, arenaView, memo>>
serverVars == <<request, response, earlier>>
tableVars == <<tableElements, loading, error, fetchCalls, load, tableView>>
paletteVars == <<category, palette>>
vars == <<moduleElements, moduleIsotopes, element, activeElement, activeIsotope, bohrView, arenaView, memo,
          request, response, earlier, tableElements, loading, error, fetchCalls, load, tableView,
          category, palette>>

\* JavaScript null / an unmounted component
Null == [null |-> TRUE]

\* JavaScript undefined
Undefined == [undefined |-> TRUE]

\* the server before its first request
ServerIdle ==
  /\ request = Null
  /\ response = Null
  /\ earlier = Null

\* pickPalette before it is called
PaletteIdle ==
  /\ category = Null
  /\ palette = Null

\* the table before it is mounted
TableIdle ==
  /\ tableElements = <<>>
  /\ loading = TRUE
  /\ error = Null
  /\ fetchCalls = 0
  /\ load = [phase |-> "idle"]
  /\ tableView = Null

----------------------------------------------------------------------------
(* Number arithmetic                                                       *)

MathMin(a, b) == IF a <= b THEN a ELSE b

MathMax(a, b) == IF a >= b THEN a ELSE b

Abs(a) == IF a < 0 THEN -a ELSE a

Sign(a) == IF a < 0 THEN -1 ELSE IF a > 0 THEN 1 ELSE 0

RECURSIVE Gcd(_, _)
Gcd(a, b) == IF b = 0 THEN a ELSE Gcd(b, a % b)

\* the fraction n/d in lowest terms; d = 0 keeps only the sign of n
Frac(n, d) ==
  IF d = 0 THEN [num |-> Sign(n), den |-> 0]
  ELSE LET g == Gcd(Abs(n), Abs(d))
           s == Sign(d)
       IN  [num |-> (s * n) \div g, den |-> (s * d) \div g]

Num(i) == [num |-> i, den |-> 1]

IsFinite(x) == x.den # 0

\* x / y of JavaScript: k/0 is +-Infinity, 0/0 is NaN
Div(x, y) ==
  IF IsFinite(x) /\ IsFinite(y) THEN Frac(x.num * y.den, x.den * y.num)
  ELSE IF IsFinite(y) THEN [num |-> x.num * (IF y.num < 0 THEN -1 ELSE 1), den |-> 0]
  ELSE IF IsFinite(x) THEN Num(0)
  ELSE [num |-> 0, den |-> 0]

\* x * y of JavaScript: Infinity * 0 is NaN
Mul(x, y) ==
  IF IsFinite(x) /\ IsFinite(y) THEN Frac(x.num * y.num, x.den * y.den)
  ELSE [num |-> Sign(x.num) * Sign(y.num), den |-> 0]

\* x + y of JavaScript: Infinity + -Infinity is NaN
Add(x, y) ==
  IF IsFinite(x) /\ IsFinite(y) THEN Frac(x.num * y.den + y.num * x.den, x.den * y.den)
  ELSE IF IsFinite(y) THEN x
  ELSE IF IsFinite(x) THEN y
  ELSE IF x.num = y.num THEN x
  ELSE [num |-> 0, den |-> 0]

Neg(x) == [num |-> -x.num, den |-> x.den]

Sub(x, y) == Add(x, Neg(y))

\* x < y on finite fractions
Less(x, y) == x.num * y.den < y.num * x.den

\* Math.min on fractions (finite arguments)
FracMin(x, y) == IF Less(y, x) THEN y ELSE x

RECURSIVE SumSeq(_)
SumSeq(s) == IF s = <<>> THEN 0 ELSE Head(s) + SumSeq(Tail(s))

RECURSIVE Concat(_)
Concat(ss) == IF ss = <<>> THEN <<>> ELSE Head(ss) \o Concat(Tail(ss))

\* Array.from({ length }): the positions 1 .. length of the new array (none for
\* length <= 0); position k holds the element of index k - 1
ArrayFrom(length) == 1..MathMax(length, 0)

----------------------------------------------------------------------------
(* server/data/elements.ts                                                 *)

\* the literal arguments of the elements array: per element its own fields
\* and, per buildIsotope call, the (element, options) pair handed to it
\* (texts that no computation reads are left out)
elementsSource ==
  <<
    [atomicNumber |-> 1, symbol |-> "H", name |-> "Hydrogen", group |-> 1, period |-> 1,
     category |-> "diatomic nonmetal",
     isotopes |-> <<
       [element |-> [atomicNumber |-> 1, symbol |-> "H"],
        options |-> [name |-> "Protium", neutrons |-> 0, bohrModel |-> [shells |-> <<1>>]]],
       [element |-> [atomicNumber |-> 1, symbol |-> "H"],
        options |-> [name |-> "Deuterium", neutrons |-> 1, bohrModel |-> [shells |-> <<1>>]]],
       [element |-> [atomicNumber |-> 1, symbol |-> "H"],
        options |-> [name |-> "Tritium", neutrons |-> 2, bohrModel |-> [shells |-> <<1>>]]]
     >>],
    [atomicNumber |-> 2, symbol |-> "He", name |-> "Helium", group |-> 18, period |-> 1,
     category |-> "noble gas",
     isotopes |-> <<
       [element |-> [atomicNumber |-> 2, symbol |-> "He"],
        options |-> [name |-> "Helium-3", neutrons |-> 1, bohrModel |-> [shells |-> <<2>>]]],
       [element |-> [atomicNumber |-> 2, symbol |-> "He"],
        options |-> [name |-> "Helium-4", neutrons |-> 2, bohrModel |-> [shells |-> <<2>>]]]
     >>],
    [atomicNumber |-> 3, symbol |-> "Li", name |-> "Lithium", group |-> 1, period |-> 2,
     category |-> "alkali metal",
     isotopes |-> <<
       [element |-> [atomicNumber |-> 3, symbol |-> "Li"],
        options |-> [name |-> "Lithium-6", neutrons |-> 3, bohrModel |-> [shells |-> <<2, 1>>]]],
       [element |-> [atomicNumber |-> 3, symbol |-> "Li"],
        options |-> [name |-> "Lithium-7", neutrons |-> 4, bohrModel |-> [shells |-> <<2, 1>>]]]
     >>],
    [atomicNumber |-> 4, symbol |-> "Be", name |-> "Beryllium", group |-> 2, period |-> 2,
     category |-> "alkaline earth metal",
     isotopes |-> <<
       [element |-> [atomicNumber |-> 4, symbol |-> "Be"],
        options |-> [name |-> "Beryllium-9", neutrons |-> 5, bohrModel |-> [shells |-> <<2, 2>>]]],
       [element |-> [atomicNumber |-> 4, symbol |-> "Be"],
        options |-> [name |-> "Beryllium-10", neutrons |-> 6, bohrModel |-> [shells |-> <<2, 2>>]]]
     >>],
    [atomicNumber |-> 5, symbol |-> "B", name |-> "Boron", group |-> 13, period |-> 2,
     category |-> "metalloid",
     isotopes |-> <<
       [element |-> [atomicNumber |-> 5, symbol |-> "B"],
        options |-> [name |-> "Boron-10", neutrons |-> 5, bohrModel |-> [shells |-> <<2, 3>>]]],
       [element |-> [atomicNumber |-> 5, symbol |-> "B"],
        options |-> [name |-> "Boron-11", neutrons |-> 6, bohrModel |-> [shells |-> <<2, 3>>]]]
     >>],
    [atomicNumber |-> 6, symbol |-> "C", name |-> "Carbon", group |-> 14, period |-> 2,
     category |-> "polyatomic nonmetal",
     isotopes |-> <<
       [element |-> [atomicNumber |-> 6, symbol |-> "C"],
        options |-> [name |-> "Carbon-12", neutrons |-> 6, bohrModel |-> [shells |-> <<2, 4>>]]],
       [element |-> [atomicNumber |-> 6, symbol |-> "C"],
        options |-> [name |-> "Carbon-13", neutrons |-> 7, bohrModel |-> [shells |-> <<2, 4>>]]],
       [element |-> [atomicNumber |-> 6, symbol |-> "C"],
        options |-> [name |-> "Carbon-14", neutrons |-> 8, bohrModel |-> [shells |-> <<2, 4>>]]]
     >>],
    [atomicNumber |-> 7, symbol |-> "N", name |-> "Nitrogen", group |-> 15, period |-> 2,
     category |-> "diatomic nonmetal",
     isotopes |-> <<
       [element |-> [atomicNumber |-> 7, symbol |-> "N"],
        options |-> [name |-> "Nitrogen-14", neutrons |-> 7, bohrModel |-> [shells |-> <<2, 5>>]]],
       [element |-> [atomicNumber |-> 7, symbol |-> "N"],
        options |-> [name |-> "Nitrogen-15", neutrons |-> 8, bohrModel |-> [shells |-> <<2, 5>>]]]
     >>],
    [atomicNumber |-> 8, symbol |-> "O", name |-> "Oxygen", group |-> 16, period |-> 2,
     category |-> "diatomic nonmetal",
     isotopes |-> <<
       [element |-> [atomicNumber |-> 8, symbol |-> "O"],
        options |-> [name |-> "Oxygen-16", neutrons |-> 8, bohrModel |-> [shells |-> <<2, 6>>]]],
       [element |-> [atomicNumber |-> 8, symbol |-> "O"],
        options |-> [name |-> "Oxygen-17", neutrons |-> 9, bohrModel |-> [shells |-> <<2, 6>>]]],
       [element |-> [atomicNumber |-> 8, symbol |-> "O"],
        options |-> [name |-> "Oxygen-18", neutrons |-> 10, bohrModel |-> [shells |-> <<2, 6>>]]]
     >>],
    [atomicNumber |-> 9, symbol |-> "F", name |-> "Fluorine", group |-> 17, period |-> 2,
     category |-> "halogen",
     isotopes |-> <<
       [element |-> [atomicNumber |-> 9, symbol |-> "F"],
        options |-> [name |-> "Fluorine-19", neutrons |-> 10, bohrModel |-> [shells |-> <<2, 7>>]]],
       [element |-> [atomicNumber |-> 9, symbol |-> "F"],
        options |-> [name |-> "Fluorine-18", neutrons |-> 9, positrons |-> 1, bohrModel |-> [shells |-> <<2, 7>>]]]
     >>],
    [atomicNumber |-> 10, symbol |-> "Ne", name |-> "Neon", group |-> 18, period |-> 2,
     category |-> "noble gas",
     isotopes |-> <<
       [element |-> [atomicNumber |-> 10, symbol |-> "Ne"],
        options |-> [name |-> "Neon-20", neutrons |-> 10, bohrModel |-> [shells |-> <<2, 8>>]]],
       [element |-> [atomicNumber |-> 10, symbol |-> "Ne"],
        options |-> [name |-> "Neon-21", neutrons |-> 11, bohrModel |-> [shells |-> <<2, 8>>]]],
       [element |-> [atomicNumber |-> 10, symbol |-> "Ne"],
        options |-> [name |-> "Neon-22", neutrons |-> 12, bohrModel |-> [shells |-> <<2, 8>>]]]
     >>],
    [atomicNumber |-> 11, symbol |-> "Na", name |-> "Sodium", group |-> 1, period |-> 3,
     category |-> "alkali metal",
     isotopes |-> <<
       [element |-> [atomicNumber |-> 11, symbol |-> "Na"],
        options |-> [name |-> "Sodium-23", neutrons |-> 12, bohrModel |-> [shells |-> <<2, 8, 1>>]]],
       [element |-> [atomicNumber |-> 11, symbol |-> "Na"],
        options |-> [name |-> "Sodium-22", neutrons |-> 11, bohrModel |-> [shells |-> <<2, 8, 1>>]]]
     >>],
    [atomicNumber |-> 12, symbol |-> "Mg", name |-> "Magnesium", group |-> 2, period |-> 3,
     category |-> "alkaline earth metal",
     isotopes |-> <<
       [element |-> [atomicNumber |-> 12, symbol |-> "Mg"],
        options |-> [name |-> "Magnesium-24", neutrons |-> 12, bohrModel |-> [shells |-> <<2, 8, 2>>]]],
       [element |-> [atomicNumber |-> 12, symbol |-> "Mg"],
        options |-> [name |-> "Magnesium-25", neutrons |-> 13, bohrModel |-> [shells |-> <<2, 8, 2>>]]],
       [element |-> [atomicNumber |-> 12, symbol |-> "Mg"],
        options |-> [name |-> "Magnesium-26", neutrons |-> 14, bohrModel |-> [shells |-> <<2, 8, 2>>]]]
     >>],
    [atomicNumber |-> 13, symbol |-> "Al", name |-> "Aluminium", group |-> 13, period |-> 3,
     category |-> "post-transition metal",
     isotopes |-> <<
       [element |-> [atomicNumber |-> 13, symbol |-> "Al"],
        options |-> [name |-> "Aluminium-27", neutrons |-> 14, bohrModel |-> [shells |-> <<2, 8, 3>>]]],
       [element |-> [atomicNumber |-> 13, symbol |-> "Al"],
        options |-> [name |-> "Aluminium-26", neutrons |-> 13, positrons |-> 1, bohrModel |-> [shells |-> <<2, 8, 3>>]]]
     >>],
    [atomicNumber |-> 14, symbol |-> "Si", name |-> "Silicon", group |-> 14, period |-> 3,
     category |-> "metalloid",
     isotopes |-> <<
       [element |-> [atomicNumber |-> 14, symbol |-> "Si"],
        options |-> [name |-> "Silicon-28", neutrons |-> 14, bohrModel |-> [shells |-> <<2, 8, 4>>]]],
       [element |-> [atomicNumber |-> 14, symbol |-> "Si"],
        options |-> [name |-> "Silicon-29", neutrons |-> 15, bohrModel |-> [shells |-> <<2, 8, 4>>]]],
       [element |-> [atomicNumber |-> 14, symbol |-> "Si"],
        options |-> [name |-> "Silicon-30", neutrons |-> 16, bohrModel |-> [shells |-> <<2, 8, 4>>]]]
     >>],
    [atomicNumber |-> 15, symbol |-> "P", name |-> "Phosphorus", group |-> 15, period |-> 3,
     category |-> "polyatomic nonmetal",
     isotopes |-> <<
       [element |-> [atomicNumber |-> 15, symbol |-> "P"],
        options |-> [name |-> "Phosphorus-31", neutrons |-> 16, bohrModel |-> [shells |-> <<2, 8, 5>>]]],
       [element |-> [atomicNumber |-> 15, symbol |-> "P"],
        options |-> [name |-> "Phosphorus-32", neutrons |-> 17, bohrModel |-> [shells |-> <<2, 8, 5>>]]]
     >>],
    [atomicNumber |-> 16, symbol |-> "S", name |-> "Sulfur", group |-> 16, period |-> 3,
     category |-> "polyatomic nonmetal",
     isotopes |-> <<
       [element |-> [atomicNumber |-> 16, symbol |-> "S"],
        options |-> [name |-> "Sulfur-32", neutrons |-> 16, bohrModel |-> [shells |-> <<2, 8, 6>>]]],
       [element |-> [atomicNumber |-> 16, symbol |-> "S"],
        options |-> [name |-> "Sulfur-33", neutrons |-> 17, bohrModel |-> [shells |-> <<2, 8, 6>>]]],
       [element |-> [atomicNumber |-> 16, symbol |-> "S"],
        options |-> [name |-> "Sulfur-34", neutrons |-> 18, bohrModel |-> [shells |-> <<2, 8, 6>>]]]
     >>],
    [atomicNumber |-> 17, symbol |-> "Cl", name |-> "Chlorine", group |-> 17, period |-> 3,
     category |-> "halogen",
     isotopes |-> <<
       [element |-> [atomicNumber |-> 17, symbol |-> "Cl"],
        options |-> [name |-> "Chlorine-35", neutrons |-> 18, bohrModel |-> [shells |-> <<2, 8, 7>>]]],
       [element |-> [atomicNumber |-> 17, symbol |-> "Cl"],
        options |-> [name |-> "Chlorine-37", neutrons |-> 20, bohrModel |-> [shells |-> <<2, 8, 7>>]]]
     >>],
    [atomicNumber |-> 18, symbol |-> "Ar", name |-> "Argon", group |-> 18, period |-> 3,
     category |-> "noble gas",
     isotopes |-> <<
       [element |-> [atomicNumber |-> 18, symbol |-> "Ar"],
        options |-> [name |-> "Argon-36", neutrons |-> 18, bohrModel |-> [shells |-> <<2, 8, 8>>]]],
       [element |-> [atomicNumber |-> 18, symbol |-> "Ar"],
        options |-> [name |-> "Argon-38", neutrons |-> 20, bohrModel |-> [shells |-> <<2, 8, 8>>]]],
       [element |-> [atomicNumber |-> 18, symbol |-> "Ar"],
        options |-> [name |-> "Argon-40", neutrons |-> 22, bohrModel |-> [shells |-> <<2, 8, 8>>]]]
     >>],
    [atomicNumber |-> 19, symbol |-> "K", name |-> "Potassium", group |-> 1, period |-> 4,
     category |-> "alkali metal",
     isotopes |-> <<
       [element |-> [atomicNumber |-> 19, symbol |-> "K"],
        options |-> [name |-> "Potassium-39", neutrons |-> 20, bohrModel |-> [shells |-> <<2, 8, 8, 1>>]]],
       [element |-> [atomicNumber |-> 19, symbol |-> "K"],
        options |-> [name |-> "Potassium-40", neutrons |-> 21, bohrModel |-> [shells |-> <<2, 8, 8, 1>>]]],
       [element |-> [atomicNumber |-> 19, symbol |-> "K"],
        options |-> [name |-> "Potassium-41", neutrons |-> 22, bohrModel |-> [shells |-> <<2, 8, 8, 1>>]]]
     >>],
    [atomicNumber |-> 20, symbol |-> "Ca", name |-> "Calcium", group |-> 2, period |-> 4,
     category |-> "alkaline earth metal",
     isotopes |-> <<
       [element |-> [atomicNumber |-> 20, symbol |-> "Ca"],
        options |-> [name |-> "Calcium-40", neutrons |-> 20, bohrModel |-> [shells |-> <<2, 8, 8, 2>>]]],
       [element |-> [atomicNumber |-> 20, symbol |-> "Ca"],
        options |-> [name |-> "Calcium-42", neutrons |-> 22, bohrModel |-> [shells |-> <<2, 8, 8, 2>>]]],
       [element |-> [atomicNumber |-> 20, symbol |-> "Ca"],
        options |-> [name |-> "Calcium-44", neutrons |-> 24, bohrModel |-> [shells |-> <<2, 8, 8, 2>>]]]
     >>],
    [atomicNumber |-> 21, symbol |-> "Sc", name |-> "Scandium", group |-> 3, period |-> 4,
     category |-> "transition metal",
     isotopes |-> <<
       [element |-> [atomicNumber |-> 21, symbol |-> "Sc"],
        options |-> [name |-> "Scandium-45", neutrons |-> 24, bohrModel |-> [shells |-> <<2, 8, 9, 2>>]]],
       [element |-> [atomicNumber |-> 21, symbol |-> "Sc"],
        options |-> [name |-> "Scandium-46", neutrons |-> 25, positrons |-> 1, bohrModel |-> [shells |-> <<2, 8, 9, 2>>]]],
       [element |-> [atomicNumber |-> 21, symbol |-> "Sc"],
        options |-> [name |-> "Scandium-47", neutrons |-> 26, bohrModel |-> [shells |-> <<2, 8, 9, 2>>]]]
     >>],
    [atomicNumber |-> 22, symbol |-> "Ti", name |-> "Titanium", group |-> 4, period |-> 4,
     category |-> "transition metal",
     isotopes |-> <<
       [element |-> [atomicNumber |-> 22, symbol |-> "Ti"],
        options |-> [name |-> "Titanium-46", neutrons |-> 24, bohrModel |-> [shells |-> <<2, 8, 10, 2>>]]],
       [element |-> [atomicNumber |-> 22, symbol |-> "Ti"],
        options |-> [name |-> "Titanium-47", neutrons |-> 25, bohrModel |-> [shells |-> <<2, 8, 10, 2>>]]],
       [element |-> [atomicNumber |-> 22, symbol |-> "Ti"],
        options |-> [name |-> "Titanium-48", neutrons |-> 26, bohrModel |-> [shells |-> <<2, 8, 10, 2>>]]]
     >>],
    [atomicNumber |-> 23, symbol |-> "V", name |-> "Vanadium", group |-> 5, period |-> 4,
     category |-> "transition metal",
     isotopes |-> <<
       [element |-> [atomicNumber |-> 23, symbol |-> "V"],
        options |-> [name |-> "Vanadium-50", neutrons |-> 27, bohrModel |-> [shells |-> <<2, 8, 11, 2>>]]],
       [element |-> [atomicNumber |-> 23, symbol |-> "V"],
        options |-> [name |-> "Vanadium-51", neutrons |-> 28, bohrModel |-> [shells |-> <<2, 8, 11, 2>>]]]
     >>],
    [atomicNumber |-> 24, symbol |-> "Cr", name |-> "Chromium", group |-> 6, period |-> 4,
     category |-> "transition metal",
     isotopes |-> <<
       [element |-> [atomicNumber |-> 24, symbol |-> "Cr"],
        options |-> [name |-> "Chromium-52", neutrons |-> 28, bohrModel |-> [shells |-> <<2, 8, 13, 1>>]]],
       [element |-> [atomicNumber |-> 24, symbol |-> "Cr"],
        options |-> [name |-> "Chromium-53", neutrons |-> 29, bohrModel |-> [shells |-> <<2, 8, 13, 1>>]]],
       [element |-> [atomicNumber |-> 24, symbol |-> "Cr"],
        options |-> [name |-> "Chromium-54", neutrons |-> 30, bohrModel |-> [shells |-> <<2, 8, 13, 1>>]]]
     >>],
    [atomicNumber |-> 25, symbol |-> "Mn", name |-> "Manganese", group |-> 7, period |-> 4,
     category |-> "transition metal",
     isotopes |-> <<
       [element |-> [atomicNumber |-> 25, symbol |-> "Mn"],
        options |-> [name |-> "Manganese-55", neutrons |-> 30, bohrModel |-> [shells |-> <<2, 8, 13, 2>>]]],
       [element |-> [atomicNumber |-> 25, symbol |-> "Mn"],
        options |-> [name |-> "Manganese-54", neutrons |-> 29, bohrModel |-> [shells |-> <<2, 8, 13, 2>>]]]
     >>],
    [atomicNumber |-> 26, symbol |-> "Fe", name |-> "Iron", group |-> 8, period |-> 4,
     category |-> "transition metal",
     isotopes |-> <<
       [element |-> [atomicNumber |-> 26, symbol |-> "Fe"],
        options |-> [name |-> "Iron-56", neutrons |-> 30, bohrModel |-> [shells |-> <<2, 8, 14, 2>>]]],
       [element |-> [atomicNumber |-> 26, symbol |-> "Fe"],
        options |-> [name |-> "Iron-57", neutrons |-> 31, bohrModel |-> [shells |-> <<2, 8, 14, 2>>]]],
       [element |-> [atomicNumber |-> 26, symbol |-> "Fe"],
        options |-> [name |-> "Iron-58", neutrons |-> 32, bohrModel |-> [shells |-> <<2, 8, 14, 2>>]]]
     >>],
    [atomicNumber |-> 27, symbol |-> "Co", name |-> "Cobalt", group |-> 9, period |-> 4,
     category |-> "transition metal",
     isotopes |-> <<
       [element |-> [atomicNumber |-> 27, symbol |-> "Co"],
        options |-> [name |-> "Cobalt-59", neutrons |-> 32, bohrModel |-> [shells |-> <<2, 8, 15, 2>>]]],
       [element |-> [atomicNumber |-> 27, symbol |-> "Co"],
        options |-> [name |-> "Cobalt-60", neutrons |-> 33, bohrModel |-> [shells |-> <<2, 8, 15, 2>>]]]
     >>],
    [atomicNumber |-> 28, symbol |-> "Ni", name |-> "Nickel", group |-> 10, period |-> 4,
     category |-> "transition metal",
     isotopes |-> <<
       [element |-> [atomicNumber |-> 28, symbol |-> "Ni"],
        options |-> [name |-> "Nickel-58", neutrons |-> 30, bohrModel |-> [shells |-> <<2, 8, 16, 2>>]]],
       [element |-> [atomicNumber |-> 28, symbol |-> "Ni"],
        options |-> [name |-> "Nickel-60", neutrons |-> 32, bohrModel |-> [shells |-> <<2, 8, 16, 2>>]]],
       [element |-> [atomicNumber |-> 28, symbol |-> "Ni"],
        options |-> [name |-> "Nickel-62", neutrons |-> 34, bohrModel |-> [shells |-> <<2, 8, 16, 2>>]]]
     >>],
    [atomicNumber |-> 29, symbol |-> "Cu", name |-> "Copper", group |-> 11, period |-> 4,
     category |-> "transition metal",
     isotopes |-> <<
       [element |-> [atomicNumber |-> 29, symbol |-> "Cu"],
        options |-> [name |-> "Copper-63", neutrons |-> 34, bohrModel |-> [shells |-> <<2, 8, 18, 1>>]]],
       [element |-> [atomicNumber |-> 29, symbol |-> "Cu"],
        options |-> [name |-> "Copper-65", neutrons |-> 36, bohrModel |-> [shells |-> <<2, 8, 18, 1>>]]],
       [element |-> [atomicNumber |-> 29, symbol |-> "Cu"],
        options |-> [name |-> "Copper-64", neutrons |-> 35, positrons |-> 1, bohrModel |-> [shells |-> <<2, 8, 18, 1>>]]]
     >>],
    [atomicNumber |-> 30, symbol |-> "Zn", name |-> "Zinc", group |-> 12, period |-> 4,
     category |-> "transition metal",
     isotopes |-> <<
       [element |-> [atomicNumber |-> 30, symbol |-> "Zn"],
        options |-> [name |-> "Zinc-64", neutrons |-> 34, bohrModel |-> [shells |-> <<2, 8, 18, 2>>]]],
       [element |-> [atomicNumber |-> 30, symbol |-> "Zn"],
        options |-> [name |-> "Zinc-66", neutrons |-> 36, bohrModel |-> [shells |-> <<2, 8, 18, 2>>]]],
       [element |-> [atomicNumber |-> 30, symbol |-> "Zn"],
        options |-> [name |-> "Zinc-68", neutrons |-> 38, bohrModel |-> [shells |-> <<2, 8, 18, 2>>]]]
     >>],
    [atomicNumber |-> 31, symbol |-> "Ga", name |-> "Gallium", group |-> 13, period |-> 4,
     category |-> "post-transition metal",
     isotopes |-> <<
       [element |-> [atomicNumber |-> 31, symbol |-> "Ga"],
        options |-> [name |-> "Gallium-69", neutrons |-> 38, bohrModel |-> [shells |-> <<2, 8, 18, 3>>]]],
       [element |-> [atomicNumber |-> 31, symbol |-> "Ga"],
        options |-> [name |-> "Gallium-71", neutrons |-> 40, bohrModel |-> [shells |-> <<2, 8, 18, 3>>]]],
       [element |-> [atomicNumber |-> 31, symbol |-> "Ga"],
        options |-> [name |-> "Gallium-67", neutrons |-> 36, bohrModel |-> [shells |-> <<2, 8, 18, 3>>]]]
     >>],
    [atomicNumber |-> 32, symbol |-> "Ge", name |-> "Germanium", group |-> 14, period |-> 4,
     category |-> "metalloid",
     isotopes |-> <<
       [element |-> [atomicNumber |-> 32, symbol |-> "Ge"],
        options |-> [name |-> "Germanium-70", neutrons |-> 38, bohrModel |-> [shells |-> <<2, 8, 18, 4>>]]],
       [element |-> [atomicNumber |-> 32, symbol |-> "Ge"],
        options |-> [name |-> "Germanium-72", neutrons |-> 40, bohrModel |-> [shells |-> <<2, 8, 18, 4>>]]],
       [element |-> [atomicNumber |-> 32, symbol |-> "Ge"],
        options |-> [name |-> "Germanium-74", neutrons |-> 42, bohrModel |-> [shells |-> <<2, 8, 18, 4>>]]]
     >>],
    [atomicNumber |-> 33, symbol |-> "As", name |-> "Arsenic", group |-> 15, period |-> 4,
     category |-> "metalloid",
     isotopes |-> <<
       [element |-> [atomicNumber |-> 33, symbol |-> "As"],
        options |-> [name |-> "Arsenic-75", neutrons |-> 42, bohrModel |-> [shells |-> <<2, 8, 18, 5>>]]],
       [element |-> [atomicNumber |-> 33, symbol |-> "As"],
        options |-> [name |-> "Arsenic-74", neutrons |-> 41, bohrModel |-> [shells |-> <<2, 8, 18, 5>>]]]
     >>],
    [atomicNumber |-> 34, symbol |-> "Se", name |-> "Selenium", group |-> 16, period |-> 4,
     category |-> "polyatomic nonmetal",
     isotopes |-> <<
       [element |-> [atomicNumber |-> 34, symbol |-> "Se"],
        options |-> [name |-> "Selenium-80", neutrons |-> 46, bohrModel |-> [shells |-> <<2, 8, 18, 6>>]]],
       [element |-> [atomicNumber |-> 34, symbol |-> "Se"],
        options |-> [name |-> "Selenium-78", neutrons |-> 44, bohrModel |-> [shells |-> <<2, 8, 18, 6>>]]],
       [element |-> [atomicNumber |-> 34, symbol |-> "Se"],
        options |-> [name |-> "Selenium-82", neutrons |-> 48, bohrModel |-> [shells |-> <<2, 8, 18, 6>>]]]
     >>],
    [atomicNumber |-> 35, symbol |-> "Br", name |-> "Bromine", group |-> 17, period |-> 4,
     category |-> "halogen",
     isotopes |-> <<
       [element |-> [atomicNumber |-> 35, symbol |-> "Br"],
        options |-> [name |-> "Bromine-79", neutrons |-> 44, bohrModel |-> [shells |-> <<2, 8, 18, 7>>]]],
       [element |-> [atomicNumber |-> 35, symbol |-> "Br"],
        options |-> [name |-> "Bromine-81", neutrons |-> 46, bohrModel |-> [shells |-> <<2, 8, 18, 7>>]]]
     >>],
    [atomicNumber |-> 36, symbol |-> "Kr", name |-> "Krypton", group |-> 18, period |-> 4,
     category |-> "noble gas",
     isotopes |-> <<
       [element |-> [atomicNumber |-> 36, symbol |-> "Kr"],
        options |-> [name |-> "Krypton-84", neutrons |-> 48, bohrModel |-> [shells |-> <<2, 8, 18, 8>>]]],
       [element |-> [atomicNumber |-> 36, symbol |-> "Kr"],
        options |-> [name |-> "Krypton-86", neutrons |-> 50, bohrModel |-> [shells |-> <<2, 8, 18, 8>>]]],
       [element |-> [atomicNumber |-> 36, symbol |-> "Kr"],
        options |-> [name |-> "Krypton-83", neutrons |-> 47, bohrModel |-> [shells |-> <<2, 8, 18, 8>>]]]
     >>],
    [atomicNumber |-> 37, symbol |-> "Rb", name |-> "Rubidium", group |-> 1, period |-> 5,
     category |-> "alkali metal",
     isotopes |-> <<
       [element |-> [atomicNumber |-> 37, symbol |-> "Rb"],
        options |-> [name |-> "Rubidium-85", neutrons |-> 48, bohrModel |-> [shells |-> <<2, 8, 18, 8, 1>>]]],
       [element |-> [atomicNumber |-> 37, symbol |-> "Rb"],
        options |-> [name |-> "Rubidium-87", neutrons |-> 50, bohrModel |-> [shells |-> <<2, 8, 18, 8, 1>>]]],
       [element |-> [atomicNumber |-> 37, symbol |-> "Rb"],
        options |-> [name |-> "Rubidium-86", neutrons |-> 49, bohrModel |-> [shells |-> <<2, 8, 18, 8, 1>>]]]
     >>],
    [atomicNumber |-> 38, symbol |-> "Sr", name |-> "Strontium", group |-> 2, period |-> 5,
     category |-> "alkaline earth metal",
     isotopes |-> <<
       [element |-> [atomicNumber |-> 38, symbol |-> "Sr"],
        options |-> [name |-> "Strontium-88", neutrons |-> 50, bohrModel |-> [shells |-> <<2, 8, 18, 8, 2>>]]],
       [element |-> [atomicNumber |-> 38, symbol |-> "Sr"],
        options |-> [name |-> "Strontium-86", neutrons |-> 48, bohrModel |-> [shells |-> <<2, 8, 18, 8, 2>>]]],
       [element |-> [atomicNumber |-> 38, symbol |-> "Sr"],
        options |-> [name |-> "Strontium-90", neutrons |-> 52, bohrModel |-> [shells |-> <<2, 8, 18, 8, 2>>]]]
     >>],
    [atomicNumber |-> 39, symbol |-> "Y", name |-> "Yttrium", group |-> 3, period |-> 5,
     category |-> "transition metal",
     isotopes |-> <<
       [element |-> [atomicNumber |-> 39, symbol |-> "Y"],
        options |-> [name |-> "Yttrium-89", neutrons |-> 50, bohrModel |-> [shells |-> <<2, 8, 18, 9, 2>>]]],
       [element |-> [atomicNumber |-> 39, symbol |-> "Y"],
        options |-> [name |-> "Yttrium-90", neutrons |-> 51, bohrModel |-> [shells |-> <<2, 8, 18, 9, 2>>]]],
       [element |-> [atomicNumber |-> 39, symbol |-> "Y"],
        options |-> [name |-> "Yttrium-88", neutrons |-> 49, bohrModel |-> [shells |-> <<2, 8, 18, 9, 2>>]]]
     >>],
    [atomicNumber |-> 40, symbol |-> "Zr", name |-> "Zirconium", group |-> 4, period |-> 5,
     category |-> "transition metal",
     isotopes |-> <<
       [element |-> [atomicNumber |-> 40, symbol |-> "Zr"],
        options |-> [name |-> "Zirconium-90", neutrons |-> 50, bohrModel |-> [shells |-> <<2, 8, 18, 10, 2>>]]],
       [element |-> [atomicNumber |-> 40, symbol |-> "Zr"],
        options |-> [name |-> "Zirconium-91", neutrons |-> 51, bohrModel |-> [shells |-> <<2, 8, 18, 10, 2>>]]],
       [element |-> [atomicNumber |-> 40, symbol |-> "Zr"],
        options |-> [name |-> "Zirconium-94", neutrons |-> 54, bohrModel |-> [shells |-> <<2, 8, 18, 10, 2>>]]]
     >>],
    [atomicNumber |-> 41, symbol |-> "Nb", name |-> "Niobium", group |-> 5, period |-> 5,
     category |-> "transition metal",
     isotopes |-> <<
       [element |-> [atomicNumber |-> 41, symbol |-> "Nb"],
        options |-> [name |-> "Niobium-93", neutrons |-> 52, bohrModel |-> [shells |-> <<2, 8, 18, 12, 1>>]]],
       [element |-> [atomicNumber |-> 41, symbol |-> "Nb"],
        options |-> [name |-> "Niobium-94", neutrons |-> 53, bohrModel |-> [shells |-> <<2, 8, 18, 12, 1>>]]],
       [element |-> [atomicNumber |-> 41, symbol |-> "Nb"],
        options |-> [name |-> "Niobium-95", neutrons |-> 54, bohrModel |-> [shells |-> <<2, 8, 18, 12, 1>>]]]
     >>],
    [atomicNumber |-> 42, symbol |-> "Mo", name |-> "Molybdenum", group |-> 6, period |-> 5,
     category |-> "transition metal",
     isotopes |-> <<
       [element |-> [atomicNumber |-> 42, symbol |-> "Mo"],
        options |-> [name |-> "Molybdenum-98", neutrons |-> 56, bohrModel |-> [shells |-> <<2, 8, 18, 13, 1>>]]],
       [element |-> [atomicNumber |-> 42, symbol |-> "Mo"],
        options |-> [name |-> "Molybdenum-96", neutrons |-> 54, bohrModel |-> [shells |-> <<2, 8, 18, 13, 1>>]]],
       [element |-> [atomicNumber |-> 42, symbol |-> "Mo"],
        options |-> [name |-> "Molybdenum-100", neutrons |-> 58, bohrModel |-> [shells |-> <<2, 8, 18, 13, 1>>]]]
     >>],
    [atomicNumber |-> 43, symbol |-> "Tc", name |-> "Technetium", group |-> 7, period |-> 5,
     category |-> "transition metal",
     isotopes |-> <<
       [element |-> [atomicNumber |-> 43, symbol |-> "Tc"],
        options |-> [name |-> "Technetium-99m", neutrons |-> 56, bohrModel |-> [shells |-> <<2, 8, 18, 14, 1>>]]],
       [element |-> [atomicNumber |-> 43, symbol |-> "Tc"],
        options |-> [name |-> "Technetium-99", neutrons |-> 56, bohrModel |-> [shells |-> <<2, 8, 18, 14, 1>>]]],
       [element |-> [atomicNumber |-> 43, symbol |-> "Tc"],
        options |-> [name |-> "Technetium-98", neutrons |-> 55, bohrModel |-> [shells |-> <<2, 8, 18, 14, 1>>]]]
     >>],
    [atomicNumber |-> 44, symbol |-> "Ru", name |-> "Ruthenium", group |-> 8, period |-> 5,
     category |-> "transition metal",
     isotopes |-> <<
       [element |-> [atomicNumber |-> 44, symbol |-> "Ru"],
        options |-> [name |-> "Ruthenium-102", neutrons |-> 58, bohrModel |-> [shells |-> <<2, 8, 18, 15, 1>>]]],
       [element |-> [atomicNumber |-> 44, symbol |-> "Ru"],
        options |-> [name |-> "Ruthenium-101", neutrons |-> 57, bohrModel |-> [shells |-> <<2, 8, 18, 15, 1>>]]],
       [element |-> [atomicNumber |-> 44, symbol |-> "Ru"],
        options |-> [name |-> "Ruthenium-104", neutrons |-> 60, bohrModel |-> [shells |-> <<2, 8, 18, 15, 1>>]]]
     >>],
    [atomicNumber |-> 45, symbol |-> "Rh", name |-> "Rhodium", group |-> 9, period |-> 5,
     category |-> "transition metal",
     isotopes |-> <<
       [element |-> [atomicNumber |-> 45, symbol |-> "Rh"],
        options |-> [name |-> "Rhodium-103", neutrons |-> 58, bohrModel |-> [shells |-> <<2, 8, 18, 16, 1>>]]],
       [element |-> [atomicNumber |-> 45, symbol |-> "Rh"],
        options |-> [name |-> "Rhodium-102", neutrons |-> 57, bohrModel |-> [shells |-> <<2, 8, 18, 16, 1>>]]],
       [element |-> [atomicNumber |-> 45, symbol |-> "Rh"],
        options |-> [name |-> "Rhodium-101", neutrons |-> 56, bohrModel |-> [shells |-> <<2, 8, 18, 16, 1>>]]]
     >>],
    [atomicNumber |-> 46, symbol |-> "Pd", name |-> "Palladium", group |-> 10, period |-> 5,
     category |-> "transition metal",
     isotopes |-> <<
       [element |-> [atomicNumber |-> 46, symbol |-> "Pd"],
        options |-> [name |-> "Palladium-106", neutrons |-> 60, bohrModel |-> [shells |-> <<2, 8, 18, 18>>]]],
       [element |-> [atomicNumber |-> 46, symbol |-> "Pd"],
        options |-> [name |-> "Palladium-108", neutrons |-> 62, bohrModel |-> [shells |-> <<2, 8, 18, 18>>]]],
       [element |-> [atomicNumber |-> 46, symbol |-> "Pd"],
        options |-> [name |-> "Palladium-110", neutrons |-> 64, bohrModel |-> [shells |-> <<2, 8, 18, 18>>]]]
     >>],
    [atomicNumber |-> 47, symbol |-> "Ag", name |-> "Silver", group |-> 11, period |-> 5,
     category |-> "transition metal",
     isotopes |-> <<
       [element |-> [atomicNumber |-> 47, symbol |-> "Ag"],
        options |-> [name |-> "Silver-107", neutrons |-> 60, bohrModel |-> [shells |-> <<2, 8, 18, 18, 1>>]]],
       [element |-> [atomicNumber |-> 47, symbol |-> "Ag"],
        options |-> [name |-> "Silver-109", neutrons |-> 62, bohrModel |-> [shells |-> <<2, 8, 18, 18, 1>>]]],
       [element |-> [atomicNumber |-> 47, symbol |-> "Ag"],
        options |-> [name |-> "Silver-110m", neutrons |-> 63, bohrModel |-> [shells |-> <<2, 8, 18, 18, 1>>]]]
     >>],
    [atomicNumber |-> 48, symbol |-> "Cd", name |-> "Cadmium", group |-> 12, period |-> 5,
     category |-> "post-transition metal",
     isotopes |-> <<
       [element |-> [atomicNumber |-> 48, symbol |-> "Cd"],
        options |-> [name |-> "Cadmium-112", neutrons |-> 64, bohrModel |-> [shells |-> <<2, 8, 18, 18, 2>>]]],
       [element |-> [atomicNumber |-> 48, symbol |-> "Cd"],
        options |-> [name |-> "Cadmium-110", neutrons |-> 62, bohrModel |-> [shells |-> <<2, 8, 18, 18, 2>>]]],
       [element |-> [atomicNumber |-> 48, symbol |-> "Cd"],
        options |-> [name |-> "Cadmium-114", neutrons |-> 66, bohrModel |-> [shells |-> <<2, 8, 18, 18, 2>>]]]
     >>],
    [atomicNumber |-> 49, symbol |-> "In", name |-> "Indium", group |-> 13, period |-> 5,
     category |-> "post-transition metal",
     isotopes |-> <<
       [element |-> [atomicNumber |-> 49, symbol |-> "In"],
        options |-> [name |-> "Indium-115", neutrons |-> 66, bohrModel |-> [shells |-> <<2, 8, 18, 18, 3>>]]],
       [element |-> [atomicNumber |-> 49, symbol |-> "In"],
        options |-> [name |-> "Indium-113", neutrons |-> 64, bohrModel |-> [shells |-> <<2, 8, 18, 18, 3>>]]],
       [element |-> [atomicNumber |-> 49, symbol |-> "In"],
        options |-> [name |-> "Indium-111", neutrons |-> 62, bohrModel |-> [shells |-> <<2, 8, 18, 18, 3>>]]]
     >>],
    [atomicNumber |-> 50, symbol |-> "Sn", name |-> "Tin", group |-> 14, period |-> 5,
     category |-> "post-transition metal",
     isotopes |-> <<
       [element |-> [atomicNumber |-> 50, symbol |-> "Sn"],
        options |-> [name |-> "Tin-120", neutrons |-> 70, bohrModel |-> [shells |-> <<2, 8, 18, 18, 4>>]]],
       [element |-> [atomicNumber |-> 50, symbol |-> "Sn"],
        options |-> [name |-> "Tin-118", neutrons |-> 68, bohrModel |-> [shells |-> <<2, 8, 18, 18, 4>>]]],
       [element |-> [atomicNumber |-> 50, symbol |-> "Sn"],
        options |-> [name |-> "Tin-124", neutrons |-> 74, bohrModel |-> [shells |-> <<2, 8, 18, 18, 4>>]]]
     >>],
    [atomicNumber |-> 51, symbol |-> "Sb", name |-> "Antimony", group |-> 15, period |-> 5,
     category |-> "metalloid",
     isotopes |-> <<
       [element |-> [atomicNumber |-> 51, symbol |-> "Sb"],
        options |-> [name |-> "Antimony-121", neutrons |-> 70, bohrModel |-> [shells |-> <<2, 8, 18, 18, 5>>]]],
       [element |-> [atomicNumber |-> 51, symbol |-> "Sb"],
        options |-> [name |-> "Antimony-123", neutrons |-> 72, bohrModel |-> [shells |-> <<2, 8, 18, 18, 5>>]]],
       [element |-> [atomicNumber |-> 51, symbol |-> "Sb"],
        options |-> [name |-> "Antimony-124", neutrons |-> 73, bohrModel |-> [shells |-> <<2, 8, 18, 18, 5>>]]]
     >>],
    [atomicNumber |-> 52, symbol |-> "Te", name |-> "Tellurium", group |-> 16, period |-> 5,
     category |-> "metalloid",
     isotopes |-> <<
       [element |-> [atomicNumber |-> 52, symbol |-> "Te"],
        options |-> [name |-> "Tellurium-128", neutrons |-> 76, bohrModel |-> [shells |-> <<2, 8, 18, 18, 6>>]]],
       [element |-> [atomicNumber |-> 52, symbol |-> "Te"],
        options |-> [name |-> "Tellurium-130", neutrons |-> 78, bohrModel |-> [shells |-> <<2, 8, 18, 18, 6>>]]],
       [element |-> [atomicNumber |-> 52, symbol |-> "Te"],
        options |-> [name |-> "Tellurium-126", neutrons |-> 74, bohrModel |-> [shells |-> <<2, 8, 18, 18, 6>>]]]
     >>],
    [atomicNumber |-> 53, symbol |-> "I", name |-> "Iodine", group |-> 17, period |-> 5,
     category |-> "halogen",
     isotopes |-> <<
       [element |-> [atomicNumber |-> 53, symbol |-> "I"],
        options |-> [name |-> "Iodine-127", neutrons |-> 74, bohrModel |-> [shells |-> <<2, 8, 18, 18, 7>>]]],
       [element |-> [atomicNumber |-> 53, symbol |-> "I"],
        options |-> [name |-> "Iodine-131", neutrons |-> 78, bohrModel |-> [shells |-> <<2, 8, 18, 18, 7>>]]],
       [element |-> [atomicNumber |-> 53, symbol |-> "I"],
        options |-> [name |-> "Iodine-129", neutrons |-> 76, bohrModel |-> [shells |-> <<2, 8, 18, 18, 7>>]]]
     >>],
    [atomicNumber |-> 54, symbol |-> "Xe", name |-> "Xenon", group |-> 18, period |-> 5,
     category |-> "noble gas",
     isotopes |-> <<
       [element |-> [atomicNumber |-> 54, symbol |-> "Xe"],
        options |-> [name |-> "Xenon-132", neutrons |-> 78, bohrModel |-> [shells |-> <<2, 8, 18, 18, 8>>]]],
       [element |-> [atomicNumber |-> 54, symbol |-> "Xe"],
        options |-> [name |-> "Xenon-129", neutrons |-> 75, bohrModel |-> [shells |-> <<2, 8, 18, 18, 8>>]]],
       [element |-> [atomicNumber |-> 54, symbol |-> "Xe"],
        options |-> [name |-> "Xenon-131", neutrons |-> 77, bohrModel |-> [shells |-> <<2, 8, 18, 18, 8>>]]]
     >>],
    [atomicNumber |-> 55, symbol |-> "Cs", name |-> "Cesium", group |-> 1, period |-> 6,
     category |-> "alkali metal",
     isotopes |-> <<
       [element |-> [atomicNumber |-> 55, symbol |-> "Cs"],
        options |-> [name |-> "Cesium-133", neutrons |-> 78, bohrModel |-> [shells |-> <<2, 8, 18, 18, 8, 1>>]]],
       [element |-> [atomicNumber |-> 55, symbol |-> "Cs"],
        options |-> [name |-> "Cesium-135", neutrons |-> 80, bohrModel |-> [shells |-> <<2, 8, 18, 18, 8, 1>>]]],
       [element |-> [atomicNumber |-> 55, symbol |-> "Cs"],
        options |-> [name |-> "Cesium-137", neutrons |-> 82, bohrModel |-> [shells |-> <<2, 8, 18, 18, 8, 1>>]]]
     >>],
    [atomicNumber |-> 56, symbol |-> "Ba", name |-> "Barium", group |-> 2, period |-> 6,
     category |-> "alkaline earth metal",
     isotopes |-> <<
       [element |-> [atomicNumber |-> 56, symbol |-> "Ba"],
        options |-> [name |-> "Barium-138", neutrons |-> 82, bohrModel |-> [shells |-> <<2, 8, 18, 18, 8, 2>>]]],
       [element |-> [atomicNumber |-> 56, symbol |-> "Ba"],
        options |-> [name |-> "Barium-137", neutrons |-> 81, bohrModel |-> [shells |-> <<2, 8, 18, 18, 8, 2>>]]],
       [element |-> [atomicNumber |-> 56, symbol |-> "Ba"],
        options |-> [name |-> "Barium-130", neutrons |-> 74, bohrModel |-> [shells |-> <<2, 8, 18, 18, 8, 2>>]]]
     >>],
    [atomicNumber |-> 57, symbol |-> "La", name |-> "Lanthanum", group |-> 3, period |-> 6,
     category |-> "lanthanide",
     isotopes |-> <<
       [element |-> [atomicNumber |-> 57, symbol |-> "La"],
        options |-> [name |-> "Lanthanum-139", neutrons |-> 82, bohrModel |-> [shells |-> <<2, 8, 18, 18, 9, 2>>]]],
       [element |-> [atomicNumber |-> 57, symbol |-> "La"],
        options |-> [name |-> "Lanthanum-138", neutrons |-> 81, bohrModel |-> [shells |-> <<2, 8, 18, 18, 9, 2>>]]],
       [element |-> [atomicNumber |-> 57, symbol |-> "La"],
        options |-> [name |-> "Lanthanum-140", neutrons |-> 83, bohrModel |-> [shells |-> <<2, 8, 18, 18, 9, 2>>]]]
     >>],
    [atomicNumber |-> 58, symbol |-> "Ce", name |-> "Cerium", group |-> 3, period |-> 6,
     category |-> "lanthanide",
     isotopes |-> <<
       [element |-> [atomicNumber |-> 58, symbol |-> "Ce"],
        options |-> [name |-> "Cerium-140", neutrons |-> 82, bohrModel |-> [shells |-> <<2, 8, 18, 19, 9, 2>>]]],
       [element |-> [atomicNumber |-> 58, symbol |-> "Ce"],
        options |-> [name |-> "Cerium-142", neutrons |-> 84, bohrModel |-> [shells |-> <<2, 8, 18, 19, 9, 2>>]]],
       [element |-> [atomicNumber |-> 58, symbol |-> "Ce"],
        options |-> [name |-> "Cerium-139", neutrons |-> 81, bohrModel |-> [shells |-> <<2, 8, 18, 19, 9, 2>>]]]
     >>],
    [atomicNumber |-> 59, symbol |-> "Pr", name |-> "Praseodymium", group |-> 3, period |-> 6,
     category |-> "lanthanide",
     isotopes |-> <<
       [element |-> [atomicNumber |-> 59, symbol |-> "Pr"],
        options |-> [name |-> "Praseodymium-141", neutrons |-> 82, bohrModel |-> [shells |-> <<2, 8, 18, 21, 8, 2>>]]],
       [element |-> [atomicNumber |-> 59, symbol |-> "Pr"],
        options |-> [name |-> "Praseodymium-143", neutrons |-> 84, bohrModel |-> [shells |-> <<2, 8, 18, 21, 8, 2>>]]],
       [element |-> [atomicNumber |-> 59, symbol |-> "Pr"],
        options |-> [name |-> "Praseodymium-142", neutrons |-> 83, bohrModel |-> [shells |-> <<2, 8, 18, 21, 8, 2>>]]]
     >>],
    [atomicNumber |-> 60, symbol |-> "Nd", name |-> "Neodymium", group |-> 3, period |-> 6,
     category |-> "lanthanide",
     isotopes |-> <<
       [element |-> [atomicNumber |-> 60, symbol |-> "Nd"],
        options |-> [name |-> "Neodymium-142", neutrons |-> 82, bohrModel |-> [shells |-> <<2, 8, 18, 22, 8, 2>>]]],
       [element |-> [atomicNumber |-> 60, symbol |-> "Nd"],
        options |-> [name |-> "Neodymium-143", neutrons |-> 83, bohrModel |-> [shells |-> <<2, 8, 18, 22, 8, 2>>]]],
       [element |-> [atomicNumber |-> 60, symbol |-> "Nd"],
        options |-> [name |-> "Neodymium-150", neutrons |-> 90, bohrModel |-> [shells |-> <<2, 8, 18, 22, 8, 2>>]]]
     >>],
    [atomicNumber |-> 61, symbol |-> "Pm", name |-> "Promethium", group |-> 3, period |-> 6,
     category |-> "lanthanide",
     isotopes |-> <<
       [element |-> [atomicNumber |-> 61, symbol |-> "Pm"],
        options |-> [name |-> "Promethium-145", neutrons |-> 84, bohrModel |-> [shells |-> <<2, 8, 18, 23, 8, 2>>]]],
       [element |-> [atomicNumber |-> 61, symbol |-> "Pm"],
        options |-> [name |-> "Promethium-147", neutrons |-> 86, bohrModel |-> [shells |-> <<2, 8, 18, 23, 8, 2>>]]],
       [element |-> [atomicNumber |-> 61, symbol |-> "Pm"],
        options |-> [name |-> "Promethium-148m", neutrons |-> 87, bohrModel |-> [shells |-> <<2, 8, 18, 23, 8, 2>>]]]
     >>],
    [atomicNumber |-> 62, symbol |-> "Sm", name |-> "Samarium", group |-> 3, period |-> 6,
     category |-> "lanthanide",
     isotopes |-> <<
       [element |-> [atomicNumber |-> 62, symbol |-> "Sm"],
        options |-> [name |-> "Samarium-152", neutrons |-> 90, bohrModel |-> [shells |-> <<2, 8, 18, 24, 8, 2>>]]],
       [element |-> [atomicNumber |-> 62, symbol |-> "Sm"],
        options |-> [name |-> "Samarium-149", neutrons |-> 87, bohrModel |-> [shells |-> <<2, 8, 18, 24, 8, 2>>]]],
       [element |-> [atomicNumber |-> 62, symbol |-> "Sm"],
        options |-> [name |-> "Samarium-153", neutrons |-> 91, bohrModel |-> [shells |-> <<2, 8, 18, 24, 8, 2>>]]]
     >>],
    [atomicNumber |-> 63, symbol |-> "Eu", name |-> "Europium", group |-> 3, period |-> 6,
     category |-> "lanthanide",
     isotopes |-> <<
       [element |-> [atomicNumber |-> 63, symbol |-> "Eu"],
        options |-> [name |-> "Europium-151", neutrons |-> 88, bohrModel |-> [shells |-> <<2, 8, 18, 25, 8, 2>>]]],
       [element |-> [atomicNumber |-> 63, symbol |-> "Eu"],
        options |-> [name |-> "Europium-153", neutrons |-> 90, bohrModel |-> [shells |-> <<2, 8, 18, 25, 8, 2>>]]],
       [element |-> [atomicNumber |-> 63, symbol |-> "Eu"],
        options |-> [name |-> "Europium-152", neutrons |-> 89, bohrModel |-> [shells |-> <<2, 8, 18, 25, 8, 2>>]]]
     >>],
    [atomicNumber |-> 64, symbol |-> "Gd", name |-> "Gadolinium", group |-> 3, period |-> 6,
     category |-> "lanthanide",
     isotopes |-> <<
       [element |-> [atomicNumber |-> 64, symbol |-> "Gd"],
        options |-> [name |-> "Gadolinium-157", neutrons |-> 93, bohrModel |-> [shells |-> <<2, 8, 18, 25, 9, 2>>]]],
       [element |-> [atomicNumber |-> 64, symbol |-> "Gd"],
        options |-> [name |-> "Gadolinium-155", neutrons |-> 91, bohrModel |-> [shells |-> <<2, 8, 18, 25, 9, 2>>]]],
       [element |-> [atomicNumber |-> 64, symbol |-> "Gd"],
        options |-> [name |-> "Gadolinium-158", neutrons |-> 94, bohrModel |-> [shells |-> <<2, 8, 18, 25, 9, 2>>]]]
     >>],
    [atomicNumber |-> 65, symbol |-> "Tb", name |-> "Terbium", group |-> 3, period |-> 6,
     category |-> "lanthanide",
     isotopes |-> <<
       [element |-> [atomicNumber |-> 65, symbol |-> "Tb"],
        options |-> [name |-> "Terbium-159", neutrons |-> 94, bohrModel |-> [shells |-> <<2, 8, 18, 27, 8, 2>>]]],
       [element |-> [atomicNumber |-> 65, symbol |-> "Tb"],
        options |-> [name |-> "Terbium-160", neutrons |-> 95, bohrModel |-> [shells |-> <<2, 8, 18, 27, 8, 2>>]]],
       [element |-> [atomicNumber |-> 65, symbol |-> "Tb"],
        options |-> [name |-> "Terbium-157", neutrons |-> 92, bohrModel |-> [shells |-> <<2, 8, 18, 27, 8, 2>>]]]
     >>],
    [atomicNumber |-> 66, symbol |-> "Dy", name |-> "Dysprosium", group |-> 3, period |-> 6,
     category |-> "lanthanide",
     isotopes |-> <<
       [element |-> [atomicNumber |-> 66, symbol |-> "Dy"],
        options |-> [name |-> "Dysprosium-164", neutrons |-> 98, bohrModel |-> [shells |-> <<2, 8, 18, 28, 8, 2>>]]],
       [element |-> [atomicNumber |-> 66, symbol |-> "Dy"],
        options |-> [name |-> "Dysprosium-163", neutrons |-> 97, bohrModel |-> [shells |-> <<2, 8, 18, 28, 8, 2>>]]],
       [element |-> [atomicNumber |-> 66, symbol |-> "Dy"],
        options |-> [name |-> "Dysprosium-166", neutrons |-> 100, bohrModel |-> [shells |-> <<2, 8, 18, 28, 8, 2>>]]]
     >>],
    [atomicNumber |-> 67, symbol |-> "Ho", name |-> "Holmium", group |-> 3, period |-> 6,
     category |-> "lanthanide",
     isotopes |-> <<
       [element |-> [atomicNumber |-> 67, symbol |-> "Ho"],
        options |-> [name |-> "Holmium-165", neutrons |-> 98, bohrModel |-> [shells |-> <<2, 8, 18, 29, 8, 2>>]]],
       [element |-> [atomicNumber |-> 67, symbol |-> "Ho"],
        options |-> [name |-> "Holmium-166", neutrons |-> 99, bohrModel |-> [shells |-> <<2, 8, 18, 29, 8, 2>>]]],
       [element |-> [atomicNumber |-> 67, symbol |-> "Ho"],
        options |-> [name |-> "Holmium-163", neutrons |-> 96, bohrModel |-> [shells |-> <<2, 8, 18, 29, 8, 2>>]]]
     >>],
    [atomicNumber |-> 68, symbol |-> "Er", name |-> "Erbium", group |-> 3, period |-> 6,
     category |-> "lanthanide",
     isotopes |-> <<
       [element |-> [atomicNumber |-> 68, symbol |-> "Er"],
        options |-> [name |-> "Erbium-166", neutrons |-> 98, bohrModel |-> [shells |-> <<2, 8, 18, 30, 8, 2>>]]],
       [element |-> [atomicNumber |-> 68, symbol |-> "Er"],
        options |-> [name |-> "Erbium-167", neutrons |-> 99, bohrModel |-> [shells |-> <<2, 8, 18, 30, 8, 2>>]]],
       [element |-> [atomicNumber |-> 68, symbol |-> "Er"],
        options |-> [name |-> "Erbium-168", neutrons |-> 100, bohrModel |-> [shells |-> <<2, 8, 18, 30, 8, 2>>]]]
     >>],
    [atomicNumber |-> 69, symbol |-> "Tm", name |-> "Thulium", group |-> 3, period |-> 6,
     category |-> "lanthanide",
     isotopes |-> <<
       [element |-> [atomicNumber |-> 69, symbol |-> "Tm"],
        options |-> [name |-> "Thulium-169", neutrons |-> 100, bohrModel |-> [shells |-> <<2, 8, 18, 31, 8, 2>>]]],
       [element |-> [atomicNumber |-> 69, symbol |-> "Tm"],
        options |-> [name |-> "Thulium-170", neutrons |-> 101, bohrModel |-> [shells |-> <<2, 8, 18, 31, 8, 2>>]]],
       [element |-> [atomicNumber |-> 69, symbol |-> "Tm"],
        options |-> [name |-> "Thulium-171", neutrons |-> 102, bohrModel |-> [shells |-> <<2, 8, 18, 31, 8, 2>>]]]
     >>],
    [atomicNumber |-> 70, symbol |-> "Yb", name |-> "Ytterbium", group |-> 3, period |-> 6,
     category |-> "lanthanide",
     isotopes |-> <<
       [element |-> [atomicNumber |-> 70, symbol |-> "Yb"],
        options |-> [name |-> "Ytterbium-174", neutrons |-> 104, bohrModel |-> [shells |-> <<2, 8, 18, 32, 8, 2>>]]],
       [element |-> [atomicNumber |-> 70, symbol |-> "Yb"],
        options |-> [name |-> "Ytterbium-171", neutrons |-> 101, bohrModel |-> [shells |-> <<2, 8, 18, 32, 8, 2>>]]],
       [element |-> [atomicNumber |-> 70, symbol |-> "Yb"],
        options |-> [name |-> "Ytterbium-173", neutrons |-> 103, bohrModel |-> [shells |-> <<2, 8, 18, 32, 8, 2>>]]]
     >>],
    [atomicNumber |-> 71, symbol |-> "Lu", name |-> "Lutetium", group |-> 3, period |-> 6,
     category |-> "lanthanide",
     isotopes |-> <<
       [element |-> [atomicNumber |-> 71, symbol |-> "Lu"],
        options |-> [name |-> "Lutetium-175", neutrons |-> 104, bohrModel |-> [shells |-> <<2, 8, 18, 32, 9, 2>>]]],
       [element |-> [atomicNumber |-> 71, symbol |-> "Lu"],
        options |-> [name |-> "Lutetium-176", neutrons |-> 105, bohrModel |-> [shells |-> <<2, 8, 18, 32, 9, 2>>]]],
       [element |-> [atomicNumber |-> 71, symbol |-> "Lu"],
        options |-> [name |-> "Lutetium-177", neutrons |-> 106, bohrModel |-> [shells |-> <<2, 8, 18, 32, 9, 2>>]]]
     >>],
    [atomicNumber |-> 72, symbol |-> "Hf", name |-> "Hafnium", group |-> 4, period |-> 6,
     category |-> "transition metal",
     isotopes |-> <<
       [element |-> [atomicNumber |-> 72, symbol |-> "Hf"],
        options |-> [name |-> "Hafnium-180", neutrons |-> 108, bohrModel |-> [shells |-> <<2, 8, 18, 32, 10, 2>>]]],
       [element |-> [atomicNumber |-> 72, symbol |-> "Hf"],
        options |-> [name |-> "Hafnium-178", neutrons |-> 106, bohrModel |-> [shells |-> <<2, 8, 18, 32, 10, 2>>]]],
       [element |-> [atomicNumber |-> 72, symbol |-> "Hf"],
        options |-> [name |-> "Hafnium-182", neutrons |-> 110, bohrModel |-> [shells |-> <<2, 8, 18, 32, 10, 2>>]]]
     >>],
    [atomicNumber |-> 73, symbol |-> "Ta", name |-> "Tantalum", group |-> 5, period |-> 6,
     category |-> "transition metal",
     isotopes |-> <<
       [element |-> [atomicNumber |-> 73, symbol |-> "Ta"],
        options |-> [name |-> "Tantalum-181", neutrons |-> 108, bohrModel |-> [shells |-> <<2, 8, 18, 32, 11, 2>>]]],
       [element |-> [atomicNumber |-> 73, symbol |-> "Ta"],
        options |-> [name |-> "Tantalum-180m", neutrons |-> 107, bohrModel |-> [shells |-> <<2, 8, 18, 32, 11, 2>>]]],
       [element |-> [atomicNumber |-> 73, symbol |-> "Ta"],
        options |-> [name |-> "Tantalum-182", neutrons |-> 109, bohrModel |-> [shells |-> <<2, 8, 18, 32, 11, 2>>]]]
     >>],
    [atomicNumber |-> 74, symbol |-> "W", name |-> "Tungsten", group |-> 6, period |-> 6,
     category |-> "transition metal",
     isotopes |-> <<
       [element |-> [atomicNumber |-> 74, symbol |-> "W"],
        options |-> [name |-> "Tungsten-184", neutrons |-> 110, bohrModel |-> [shells |-> <<2, 8, 18, 32, 12, 2>>]]],
       [element |-> [atomicNumber |-> 74, symbol |-> "W"],
        options |-> [name |-> "Tungsten-186", neutrons |-> 112, bohrModel |-> [shells |-> <<2, 8, 18, 32, 12, 2>>]]],
       [element |-> [atomicNumber |-> 74, symbol |-> "W"],
        options |-> [name |-> "Tungsten-182", neutrons |-> 108, bohrModel |-> [shells |-> <<2, 8, 18, 32, 12, 2>>]]]
     >>],
    [atomicNumber |-> 75, symbol |-> "Re", name |-> "Rhenium", group |-> 7, period |-> 6,
     category |-> "transition metal",
     isotopes |-> <<
       [element |-> [atomicNumber |-> 75, symbol |-> "Re"],
        options |-> [name |-> "Rhenium-185", neutrons |-> 110, bohrModel |-> [shells |-> <<2, 8, 18, 32, 13, 2>>]]],
       [element |-> [atomicNumber |-> 75, symbol |-> "Re"],
        options |-> [name |-> "Rhenium-187", neutrons |-> 112, bohrModel |-> [shells |-> <<2, 8, 18, 32, 13, 2>>]]],
       [element |-> [atomicNumber |-> 75, symbol |-> "Re"],
        options |-> [name |-> "Rhenium-188", neutrons |-> 113, bohrModel |-> [shells |-> <<2, 8, 18, 32, 13, 2>>]]]
     >>],
    [atomicNumber |-> 76, symbol |-> "Os", name |-> "Osmium", group |-> 8, period |-> 6,
     category |-> "transition metal",
     isotopes |-> <<
       [element |-> [atomicNumber |-> 76, symbol |-> "Os"],
        options |-> [name |-> "Osmium-192", neutrons |-> 116, bohrModel |-> [shells |-> <<2, 8, 18, 32, 14, 2>>]]],
       [element |-> [atomicNumber |-> 76, symbol |-> "Os"],
        options |-> [name |-> "Osmium-190", neutrons |-> 114, bohrModel |-> [shells |-> <<2, 8, 18, 32, 14, 2>>]]],
       [element |-> [atomicNumber |-> 76, symbol |-> "Os"],
        options |-> [name |-> "Osmium-187", neutrons |-> 111, bohrModel |-> [shells |-> <<2, 8, 18, 32, 14, 2>>]]]
     >>],
    [atomicNumber |-> 77, symbol |-> "Ir", name |-> "Iridium", group |-> 9, period |-> 6,
     category |-> "transition metal",
     isotopes |-> <<
       [element |-> [atomicNumber |-> 77, symbol |-> "Ir"],
        options |-> [name |-> "Iridium-191", neutrons |-> 114, bohrModel |-> [shells |-> <<2, 8, 18, 32, 15, 2>>]]],
       [element |-> [atomicNumber |-> 77, symbol |-> "Ir"],
        options |-> [name |-> "Iridium-193", neutrons |-> 116, bohrModel |-> [shells |-> <<2, 8, 18, 32, 15, 2>>]]],
       [element |-> [atomicNumber |-> 77, symbol |-> "Ir"],
        options |-> [name |-> "Iridium-192", neutrons |-> 115, bohrModel |-> [shells |-> <<2, 8, 18, 32, 15, 2>>]]]
     >>],
    [atomicNumber |-> 78, symbol |-> "Pt", name |-> "Platinum", group |-> 10, period |-> 6,
     category |-> "transition metal",
     isotopes |-> <<
       [element |-> [atomicNumber |-> 78, symbol |-> "Pt"],
        options |-> [name |-> "Platinum-195", neutrons |-> 117, bohrModel |-> [shells |-> <<2, 8, 18, 32, 17, 1>>]]],
       [element |-> [atomicNumber |-> 78, symbol |-> "Pt"],
        options |-> [name |-> "Platinum-194", neutrons |-> 116, bohrModel |-> [shells |-> <<2, 8, 18, 32, 17, 1>>]]],
       [element |-> [atomicNumber |-> 78, symbol |-> "Pt"],
        options |-> [name |-> "Platinum-196", neutrons |-> 118, bohrModel |-> [shells |-> <<2, 8, 18, 32, 17, 1>>]]]
     >>],
    [atomicNumber |-> 79, symbol |-> "Au", name |-> "Gold", group |-> 11, period |-> 6,
     category |-> "transition metal",
     isotopes |-> <<
       [element |-> [atomicNumber |-> 79, symbol |-> "Au"],
        options |-> [name |-> "Gold-197", neutrons |-> 118, bohrModel |-> [shells |-> <<2, 8, 18, 32, 18, 1>>]]],
       [element |-> [atomicNumber |-> 79, symbol |-> "Au"],
        options |-> [name |-> "Gold-198", neutrons |-> 119, bohrModel |-> [shells |-> <<2, 8, 18, 32, 18, 1>>]]],
       [element |-> [atomicNumber |-> 79, symbol |-> "Au"],
        options |-> [name |-> "Gold-199", neutrons |-> 120, bohrModel |-> [shells |-> <<2, 8, 18, 32, 18, 1>>]]]
     >>],
    [atomicNumber |-> 80, symbol |-> "Hg", name |-> "Mercury", group |-> 12, period |-> 6,
     category |-> "post-transition metal",
     isotopes |-> <<
       [element |-> [atomicNumber |-> 80, symbol |-> "Hg"],
        options |-> [name |-> "Mercury-202", neutrons |-> 122, bohrModel |-> [shells |-> <<2, 8, 18, 32, 18, 2>>]]],
       [element |-> [atomicNumber |-> 80, symbol |-> "Hg"],
        options |-> [name |-> "Mercury-200", neutrons |-> 120, bohrModel |-> [shells |-> <<2, 8, 18, 32, 18, 2>>]]],
       [element |-> [atomicNumber |-> 80, symbol |-> "Hg"],
        options |-> [name |-> "Mercury-199", neutrons |-> 119, bohrModel |-> [shells |-> <<2, 8, 18, 32, 18, 2>>]]]
     >>],
    [atomicNumber |-> 81, symbol |-> "Tl", name |-> "Thallium", group |-> 13, period |-> 6,
     category |-> "post-transition metal",
     isotopes |-> <<
       [element |-> [atomicNumber |-> 81, symbol |-> "Tl"],
        options |-> [name |-> "Thallium-203", neutrons |-> 122, bohrModel |-> [shells |-> <<2, 8, 18, 32, 18, 3>>]]],
       [element |-> [atomicNumber |-> 81, symbol |-> "Tl"],
        options |-> [name |-> "Thallium-205", neutrons |-> 124, bohrModel |-> [shells |-> <<2, 8, 18, 32, 18, 3>>]]],
       [element |-> [atomicNumber |-> 81, symbol |-> "Tl"],
        options |-> [name |-> "Thallium-201", neutrons |-> 120, bohrModel |-> [shells |-> <<2, 8, 18, 32, 18, 3>>]]]
     >>],
    [atomicNumber |-> 82, symbol |-> "Pb", name |-> "Lead", group |-> 14, period |-> 6,
     category |-> "post-transition metal",
     isotopes |-> <<
       [element |-> [atomicNumber |-> 82, symbol |-> "Pb"],
        options |-> [name |-> "Lead-206", neutrons |-> 124, bohrModel |-> [shells |-> <<2, 8, 18, 32, 18, 4>>]]],
       [element |-> [atomicNumber |-> 82, symbol |-> "Pb"],
        options |-> [name |-> "Lead-207", neutrons |-> 125, bohrModel |-> [shells |-> <<2, 8, 18, 32, 18, 4>>]]],
       [element |-> [atomicNumber |-> 82, symbol |-> "Pb"],
        options |-> [name |-> "Lead-208", neutrons |-> 126, bohrModel |-> [shells |-> <<2, 8, 18, 32, 18, 4>>]]]
     >>],
    [atomicNumber |-> 83, symbol |-> "Bi", name |-> "Bismuth", group |-> 15, period |-> 6,
     category |-> "post-transition metal",
     isotopes |-> <<
       [element |-> [atomicNumber |-> 83, symbol |-> "Bi"],
        options |-> [name |-> "Bismuth-209", neutrons |-> 126, bohrModel |-> [shells |-> <<2, 8, 18, 32, 18, 5>>]]],
       [element |-> [atomicNumber |-> 83, symbol |-> "Bi"],
        options |-> [name |-> "Bismuth-210", neutrons |-> 127, bohrModel |-> [shells |-> <<2, 8, 18, 32, 18, 5>>]]],
       [element |-> [atomicNumber |-> 83, symbol |-> "Bi"],
        options |-> [name |-> "Bismuth-212", neutrons |-> 129, bohrModel |-> [shells |-> <<2, 8, 18, 32, 18, 5>>]]]
     >>],
    [atomicNumber |-> 84, symbol |-> "Po", name |-> "Polonium", group |-> 16, period |-> 6,
     category |-> "post-transition metal",
     isotopes |-> <<
       [element |-> [atomicNumber |-> 84, symbol |-> "Po"],
        options |-> [name |-> "Polonium-210", neutrons |-> 126, bohrModel |-> [shells |-> <<2, 8, 18, 32, 18, 6>>]]],
       [element |-> [atomicNumber |-> 84, symbol |-> "Po"],
        options |-> [name |-> "Polonium-208", neutrons |-> 124, bohrModel |-> [shells |-> <<2, 8, 18, 32, 18, 6>>]]],
       [element |-> [atomicNumber |-> 84, symbol |-> "Po"],
        options |-> [name |-> "Polonium-209", neutrons |-> 125, bohrModel |-> [shells |-> <<2, 8, 18, 32, 18, 6>>]]]
     >>],
    [atomicNumber |-> 85, symbol |-> "At", name |-> "Astatine", group |-> 17, period |-> 6,
     category |-> "halogen",
     isotopes |-> <<
       [element |-> [atomicNumber |-> 85, symbol |-> "At"],
        options |-> [name |-> "Astatine-211", neutrons |-> 126, bohrModel |-> [shells |-> <<2, 8, 18, 32, 18, 7>>]]],
       [element |-> [atomicNumber |-> 85, symbol |-> "At"],
        options |-> [name |-> "Astatine-210", neutrons |-> 125, bohrModel |-> [shells |-> <<2, 8, 18, 32, 18, 7>>]]],
       [element |-> [atomicNumber |-> 85, symbol |-> "At"],
        options |-> [name |-> "Astatine-213", neutrons |-> 128, bohrModel |-> [shells |-> <<2, 8, 18, 32, 18, 7>>]]]
     >>],
    [atomicNumber |-> 86, symbol |-> "Rn", name |-> "Radon", group |-> 18, period |-> 6,
     category |-> "noble gas",
     isotopes |-> <<
       [element |-> [atomicNumber |-> 86, symbol |-> "Rn"],
        options |-> [name |-> "Radon-222", neutrons |-> 136, bohrModel |-> [shells |-> <<2, 8, 18, 32, 18, 8>>]]],
       [element |-> [atomicNumber |-> 86, symbol |-> "Rn"],
        options |-> [name |-> "Radon-220", neutrons |-> 134, bohrModel |-> [shells |-> <<2, 8, 18, 32, 18, 8>>]]],
       [element |-> [atomicNumber |-> 86, symbol |-> "Rn"],
        options |-> [name |-> "Radon-219", neutrons |-> 133, bohrModel |-> [shells |-> <<2, 8, 18, 32, 18, 8>>]]]
     >>],
    [atomicNumber |-> 87, symbol |-> "Fr", name |-> "Francium", group |-> 1, period |-> 7,
     category |-> "alkali metal",
     isotopes |-> <<
       [element |-> [atomicNumber |-> 87, symbol |-> "Fr"],
        options |-> [name |-> "Francium-223", neutrons |-> 136, bohrModel |-> [shells |-> <<2, 8, 18, 32, 18, 8, 1>>]]],
       [element |-> [atomicNumber |-> 87, symbol |-> "Fr"],
        options |-> [name |-> "Francium-221", neutrons |-> 134, bohrModel |-> [shells |-> <<2, 8, 18, 32, 18, 8, 1>>]]],
       [element |-> [atomicNumber |-> 87, symbol |-> "Fr"],
        options |-> [name |-> "Francium-225", neutrons |-> 138, bohrModel |-> [shells |-> <<2, 8, 18, 32, 18, 8, 1>>]]]
     >>],
    [atomicNumber |-> 88, symbol |-> "Ra", name |-> "Radium", group |-> 2, period |-> 7,
     category |-> "alkaline earth metal",
     isotopes |-> <<
       [element |-> [atomicNumber |-> 88, symbol |-> "Ra"],
        options |-> [name |-> "Radium-226", neutrons |-> 138, bohrModel |-> [shells |-> <<2, 8, 18, 32, 18, 8, 2>>]]],
       [element |-> [atomicNumber |-> 88, symbol |-> "Ra"],
        options |-> [name |-> "Radium-224", neutrons |-> 136, bohrModel |-> [shells |-> <<2, 8, 18, 32, 18, 8, 2>>]]],
       [element |-> [atomicNumber |-> 88, symbol |-> "Ra"],
        options |-> [name |-> "Radium-223", neutrons |-> 135, bohrModel |-> [shells |-> <<2, 8, 18, 32, 18, 8, 2>>]]]
     >>],
    [atomicNumber |-> 89, symbol |-> "Ac", name |-> "Actinium", group |-> 3, period |-> 7,
     category |-> "actinide",
     isotopes |-> <<
       [element |-> [atomicNumber |-> 89, symbol |-> "Ac"],
        options |-> [name |-> "Actinium-227", neutrons |-> 138, bohrModel |-> [shells |-> <<2, 8, 18, 32, 18, 9, 2>>]]],
       [element |-> [atomicNumber |-> 89, symbol |-> "Ac"],
        options |-> [name |-> "Actinium-225", neutrons |-> 136, bohrModel |-> [shells |-> <<2, 8, 18, 32, 18, 9, 2>>]]],
       [element |-> [atomicNumber |-> 89, symbol |-> "Ac"],
        options |-> [name |-> "Actinium-228", neutrons |-> 139, bohrModel |-> [shells |-> <<2, 8, 18, 32, 18, 9, 2>>]]]
     >>],
    [atomicNumber |-> 90, symbol |-> "Th", name |-> "Thorium", group |-> 3, period |-> 7,
     category |-> "actinide",
     isotopes |-> <<
       [element |-> [atomicNumber |-> 90, symbol |-> "Th"],
        options |-> [name |-> "Thorium-232", neutrons |-> 142, bohrModel |-> [shells |-> <<2, 8, 18, 32, 18, 10, 2>>]]],
       [element |-> [atomicNumber |-> 90, symbol |-> "Th"],
        options |-> [name |-> "Thorium-230", neutrons |-> 140, bohrModel |-> [shells |-> <<2, 8, 18, 32, 18, 10, 2>>]]],
       [element |-> [atomicNumber |-> 90, symbol |-> "Th"],
        options |-> [name |-> "Thorium-229", neutrons |-> 139, bohrModel |-> [shells |-> <<2, 8, 18, 32, 18, 10, 2>>]]]
     >>],
    [atomicNumber |-> 91, symbol |-> "Pa", name |-> "Protactinium", group |-> 3, period |-> 7,
     category |-> "actinide",
     isotopes |-> <<
       [element |-> [atomicNumber |-> 91, symbol |-> "Pa"],
        options |-> [name |-> "Protactinium-231", neutrons |-> 140, bohrModel |-> [shells |-> <<2, 8, 18, 32, 20, 9, 2>>]]],
       [element |-> [atomicNumber |-> 91, symbol |-> "Pa"],
        options |-> [name |-> "Protactinium-233", neutrons |-> 142, bohrModel |-> [shells |-> <<2, 8, 18, 32, 20, 9, 2>>]]],
       [element |-> [atomicNumber |-> 91, symbol |-> "Pa"],
        options |-> [name |-> "Protactinium-230", neutrons |-> 139, bohrModel |-> [shells |-> <<2, 8, 18, 32, 20, 9, 2>>]]]
     >>],
    [atomicNumber |-> 92, symbol |-> "U", name |-> "Uranium", group |-> 3, period |-> 7,
     category |-> "actinide",
     isotopes |-> <<
       [element |-> [atomicNumber |-> 92, symbol |-> "U"],
        options |-> [name |-> "Uranium-238", neutrons |-> 146, bohrModel |-> [shells |-> <<2, 8, 18, 32, 21, 9, 2>>]]],
       [element |-> [atomicNumber |-> 92, symbol |-> "U"],
        options |-> [name |-> "Uranium-235", neutrons |-> 143, bohrModel |-> [shells |-> <<2, 8, 18, 32, 21, 9, 2>>]]],
       [element |-> [atomicNumber |-> 92, symbol |-> "U"],
        options |-> [name |-> "Uranium-234", neutrons |-> 142, bohrModel |-> [shells |-> <<2, 8, 18, 32, 21, 9, 2>>]]]
     >>],
    [atomicNumber |-> 93, symbol |-> "Np", name |-> "Neptunium", group |-> 3, period |-> 7,
     category |-> "actinide",
     isotopes |-> <<
       [element |-> [atomicNumber |-> 93, symbol |-> "Np"],
        options |-> [name |-> "Neptunium-237", neutrons |-> 144, bohrModel |-> [shells |-> <<2, 8, 18, 32, 22, 9, 2>>]]],
       [element |-> [atomicNumber |-> 93, symbol |-> "Np"],
        options |-> [name |-> "Neptunium-239", neutrons |-> 146, bohrModel |-> [shells |-> <<2, 8, 18, 32, 22, 9, 2>>]]],
       [element |-> [atomicNumber |-> 93, symbol |-> "Np"],
        options |-> [name |-> "Neptunium-236", neutrons |-> 143, bohrModel |-> [shells |-> <<2, 8, 18, 32, 22, 9, 2>>]]]
     >>],
    [atomicNumber |-> 94, symbol |-> "Pu", name |-> "Plutonium", group |-> 3, period |-> 7,
     category |-> "actinide",
     isotopes |-> <<
       [element |-> [atomicNumber |-> 94, symbol |-> "Pu"],
        options |-> [name |-> "Plutonium-239", neutrons |-> 145, bohrModel |-> [shells |-> <<2, 8, 18, 32, 24, 8, 2>>]]],
       [element |-> [atomicNumber |-> 94, symbol |-> "Pu"],
        options |-> [name |-> "Plutonium-240", neutrons |-> 146, bohrModel |-> [shells |-> <<2, 8, 18, 32, 24, 8, 2>>]]],
       [element |-> [atomicNumber |-> 94, symbol |-> "Pu"],
        options |-> [name |-> "Plutonium-238", neutrons |-> 144, bohrModel |-> [shells |-> <<2, 8, 18, 32, 24, 8, 2>>]]]
     >>],
    [atomicNumber |-> 95, symbol |-> "Am", name |-> "Americium", group |-> 3, period |-> 7,
     category |-> "actinide",
     isotopes |-> <<
       [element |-> [atomicNumber |-> 95, symbol |-> "Am"],
        options |-> [name |-> "Americium-241", neutrons |-> 146, bohrModel |-> [shells |-> <<2, 8, 18, 32, 25, 8, 2>>]]],
       [element |-> [atomicNumber |-> 95, symbol |-> "Am"],
        options |-> [name |-> "Americium-243", neutrons |-> 148, bohrModel |-> [shells |-> <<2, 8, 18, 32, 25, 8, 2>>]]],
       [element |-> [atomicNumber |-> 95, symbol |-> "Am"],
        options |-> [name |-> "Americium-242m", neutrons |-> 147, bohrModel |-> [shells |-> <<2, 8, 18, 32, 25, 8, 2>>]]]
     >>],
    [atomicNumber |-> 96, symbol |-> "Cm", name |-> "Curium", group |-> 3, period |-> 7,
     category |-> "actinide",
     isotopes |-> <<
       [element |-> [atomicNumber |-> 96, symbol |-> "Cm"],
        options |-> [name |-> "Curium-244", neutrons |-> 148, bohrModel |-> [shells |-> <<2, 8, 18, 32, 25, 9, 2>>]]],
       [element |-> [atomicNumber |-> 96, symbol |-> "Cm"],
        options |-> [name |-> "Curium-247", neutrons |-> 151, bohrModel |-> [shells |-> <<2, 8, 18, 32, 25, 9, 2>>]]],
       [element |-> [atomicNumber |-> 96, symbol |-> "Cm"],
        options |-> [name |-> "Curium-242", neutrons |-> 146, bohrModel |-> [shells |-> <<2, 8, 18, 32, 25, 9, 2>>]]]
     >>],
    [atomicNumber |-> 97, symbol |-> "Bk", name |-> "Berkelium", group |-> 3, period |-> 7,
     category |-> "actinide",
     isotopes |-> <<
       [element |-> [atomicNumber |-> 97, symbol |-> "Bk"],
        options |-> [name |-> "Berkelium-249", neutrons |-> 152, bohrModel |-> [shells |-> <<2, 8, 18, 32, 27, 8, 2>>]]],
       [element |-> [atomicNumber |-> 97, symbol |-> "Bk"],
        options |-> [name |-> "Berkelium-247", neutrons |-> 150, bohrModel |-> [shells |-> <<2, 8, 18, 32, 27, 8, 2>>]]],
       [element |-> [atomicNumber |-> 97, symbol |-> "Bk"],
        options |-> [name |-> "Berkelium-250", neutrons |-> 153, bohrModel |-> [shells |-> <<2, 8, 18, 32, 27, 8, 2>>]]]
     >>],
    [atomicNumber |-> 98, symbol |-> "Cf", name |-> "Californium", group |-> 3, period |-> 7,
     category |-> "actinide",
     isotopes |-> <<
       [element |-> [atomicNumber |-> 98, symbol |-> "Cf"],
        options |-> [name |-> "Californium-252", neutrons |-> 154, bohrModel |-> [shells |-> <<2, 8, 18, 32, 28, 8, 2>>]]],
       [element |-> [atomicNumber |-> 98, symbol |-> "Cf"],
        options |-> [name |-> "Californium-251", neutrons |-> 153, bohrModel |-> [shells |-> <<2, 8, 18, 32, 28, 8, 2>>]]],
       [element |-> [atomicNumber |-> 98, symbol |-> "Cf"],
        options |-> [name |-> "Californium-249", neutrons |-> 151, bohrModel |-> [shells |-> <<2, 8, 18, 32, 28, 8, 2>>]]]
     >>],
    [atomicNumber |-> 99, symbol |-> "Es", name |-> "Einsteinium", group |-> 3, period |-> 7,
     category |-> "actinide",
     isotopes |-> <<
       [element |-> [atomicNumber |-> 99, symbol |-> "Es"],
        options |-> [name |-> "Einsteinium-252", neutrons |-> 153, bohrModel |-> [shells |-> <<2, 8, 18, 32, 29, 8, 2>>]]],
       [element |-> [atomicNumber |-> 99, symbol |-> "Es"],
        options |-> [name |-> "Einsteinium-253", neutrons |-> 154, bohrModel |-> [shells |-> <<2, 8, 18, 32, 29, 8, 2>>]]],
       [element |-> [atomicNumber |-> 99, symbol |-> "Es"],
        options |-> [name |-> "Einsteinium-254", neutrons |-> 155, bohrModel |-> [shells |-> <<2, 8, 18, 32, 29, 8, 2>>]]]
     >>],
    [atomicNumber |-> 100, symbol |-> "Fm", name |-> "Fermium", group |-> 3, period |-> 7,
     category |-> "actinide",
     isotopes |-> <<
       [element |-> [atomicNumber |-> 100, symbol |-> "Fm"],
        options |-> [name |-> "Fermium-257", neutrons |-> 157, bohrModel |-> [shells |-> <<2, 8, 18, 32, 30, 8, 2>>]]],
       [element |-> [atomicNumber |-> 100, symbol |-> "Fm"],
        options |-> [name |-> "Fermium-255", neutrons |-> 155, bohrModel |-> [shells |-> <<2, 8, 18, 32, 30, 8, 2>>]]],
       [element |-> [atomicNumber |-> 100, symbol |-> "Fm"],
        options |-> [name |-> "Fermium-258", neutrons |-> 158, bohrModel |-> [shells |-> <<2, 8, 18, 32, 30, 8, 2>>]]]
     >>],
    [atomicNumber |-> 101, symbol |-> "Md", name |-> "Mendelevium", group |-> 3, period |-> 7,
     category |-> "actinide",
     isotopes |-> <<
       [element |-> [atomicNumber |-> 101, symbol |-> "Md"],
        options |-> [name |-> "Mendelevium-258", neutrons |-> 157, bohrModel |-> [shells |-> <<2, 8, 18, 32, 31, 8, 2>>]]],
       [element |-> [atomicNumber |-> 101, symbol |-> "Md"],
        options |-> [name |-> "Mendelevium-256", neutrons |-> 155, bohrModel |-> [shells |-> <<2, 8, 18, 32, 31, 8, 2>>]]],
       [element |-> [atomicNumber |-> 101, symbol |-> "Md"],
        options |-> [name |-> "Mendelevium-259", neutrons |-> 158, bohrModel |-> [shells |-> <<2, 8, 18, 32, 31, 8, 2>>]]]
     >>],
    [atomicNumber |-> 102, symbol |-> "No", name |-> "Nobelium", group |-> 3, period |-> 7,
     category |-> "actinide",
     isotopes |-> <<
       [element |-> [atomicNumber |-> 102, symbol |-> "No"],
        options |-> [name |-> "Nobelium-259", neutrons |-> 157, bohrModel |-> [shells |-> <<2, 8, 18, 32, 32, 8, 2>>]]],
       [element |-> [atomicNumber |-> 102, symbol |-> "No"],
        options |-> [name |-> "Nobelium-255", neutrons |-> 153, bohrModel |-> [shells |-> <<2, 8, 18, 32, 32, 8, 2>>]]],
       [element |-> [atomicNumber |-> 102, symbol |-> "No"],
        options |-> [name |-> "Nobelium-252", neutrons |-> 150, bohrModel |-> [shells |-> <<2, 8, 18, 32, 32, 8, 2>>]]]
     >>],
    [atomicNumber |-> 103, symbol |-> "Lr", name |-> "Lawrencium", group |-> 3, period |-> 7,
     category |-> "actinide",
     isotopes |-> <<
       [element |-> [atomicNumber |-> 103, symbol |-> "Lr"],
        options |-> [name |-> "Lawrencium-262", neutrons |-> 159, bohrModel |-> [shells |-> <<2, 8, 18, 32, 32, 8, 3>>]]],
       [element |-> [atomicNumber |-> 103, symbol |-> "Lr"],
        options |-> [name |-> "Lawrencium-261", neutrons |-> 158, bohrModel |-> [shells |-> <<2, 8, 18, 32, 32, 8, 3>>]]],
       [element |-> [atomicNumber |-> 103, symbol |-> "Lr"],
        options |-> [name |-> "Lawrencium-260", neutrons |-> 157, bohrModel |-> [shells |-> <<2, 8, 18, 32, 32, 8, 3>>]]]
     >>],
    [atomicNumber |-> 104, symbol |-> "Rf", name |-> "Rutherfordium", group |-> 4, period |-> 7,
     category |-> "transition metal",
     isotopes |-> <<
       [element |-> [atomicNumber |-> 104, symbol |-> "Rf"],
        options |-> [name |-> "Rutherfordium-267", neutrons |-> 163, bohrModel |-> [shells |-> <<2, 8, 18, 32, 32, 10, 2>>]]],
       [element |-> [atomicNumber |-> 104, symbol |-> "Rf"],
        options |-> [name |-> "Rutherfordium-265", neutrons |-> 161, bohrModel |-> [shells |-> <<2, 8, 18, 32, 32, 10, 2>>]]],
       [element |-> [atomicNumber |-> 104, symbol |-> "Rf"],
        options |-> [name |-> "Rutherfordium-263", neutrons |-> 159, bohrModel |-> [shells |-> <<2, 8, 18, 32, 32, 10, 2>>]]]
     >>],
    [atomicNumber |-> 105, symbol |-> "Db", name |-> "Dubnium", group |-> 5, period |-> 7,
     category |-> "transition metal",
     isotopes |-> <<
       [element |-> [atomicNumber |-> 105, symbol |-> "Db"],
        options |-> [name |-> "Dubnium-268", neutrons |-> 163, bohrModel |-> [shells |-> <<2, 8, 18, 32, 32, 11, 2>>]]],
       [element |-> [atomicNumber |-> 105, symbol |-> "Db"],
        options |-> [name |-> "Dubnium-270", neutrons |-> 165, bohrModel |-> [shells |-> <<2, 8, 18, 32, 32, 11, 2>>]]],
       [element |-> [atomicNumber |-> 105, symbol |-> "Db"],
        options |-> [name |-> "Dubnium-262", neutrons |-> 157, bohrModel |-> [shells |-> <<2, 8, 18, 32, 32, 11, 2>>]]]
     >>],
    [atomicNumber |-> 106, symbol |-> "Sg", name |-> "Seaborgium", group |-> 6, period |-> 7,
     category |-> "transition metal",
     isotopes |-> <<
       [element |-> [atomicNumber |-> 106, symbol |-> "Sg"],
        options |-> [name |-> "Seaborgium-269", neutrons |-> 163, bohrModel |-> [shells |-> <<2, 8, 18, 32, 32, 12, 2>>]]],
       [element |-> [atomicNumber |-> 106, symbol |-> "Sg"],
        options |-> [name |-> "Seaborgium-271", neutrons |-> 165, bohrModel |-> [shells |-> <<2, 8, 18, 32, 32, 12, 2>>]]],
       [element |-> [atomicNumber |-> 106, symbol |-> "Sg"],
        options |-> [name |-> "Seaborgium-263", neutrons |-> 157, bohrModel |-> [shells |-> <<2, 8, 18, 32, 32, 12, 2>>]]]
     >>],
    [atomicNumber |-> 107, symbol |-> "Bh", name |-> "Bohrium", group |-> 7, period |-> 7,
     category |-> "transition metal",
     isotopes |-> <<
       [element |-> [atomicNumber |-> 107, symbol |-> "Bh"],
        options |-> [name |-> "Bohrium-270", neutrons |-> 163, bohrModel |-> [shells |-> <<2, 8, 18, 32, 32, 13, 2>>]]],
       [element |-> [atomicNumber |-> 107, symbol |-> "Bh"],
        options |-> [name |-> "Bohrium-271", neutrons |-> 164, bohrModel |-> [shells |-> <<2, 8, 18, 32, 32, 13, 2>>]]],
       [element |-> [atomicNumber |-> 107, symbol |-> "Bh"],
        options |-> [name |-> "Bohrium-274", neutrons |-> 167, bohrModel |-> [shells |-> <<2, 8, 18, 32, 32, 13, 2>>]]]
     >>],
    [atomicNumber |-> 108, symbol |-> "Hs", name |-> "Hassium", group |-> 8, period |-> 7,
     category |-> "transition metal",
     isotopes |-> <<
       [element |-> [atomicNumber |-> 108, symbol |-> "Hs"],
        options |-> [name |-> "Hassium-270", neutrons |-> 162, bohrModel |-> [shells |-> <<2, 8, 18, 32, 32, 14, 2>>]]],
       [element |-> [atomicNumber |-> 108, symbol |-> "Hs"],
        options |-> [name |-> "Hassium-271", neutrons |-> 163, bohrModel |-> [shells |-> <<2, 8, 18, 32, 32, 14, 2>>]]],
       [element |-> [atomicNumber |-> 108, symbol |-> "Hs"],
        options |-> [name |-> "Hassium-277", neutrons |-> 169, bohrModel |-> [shells |-> <<2, 8, 18, 32, 32, 14, 2>>]]]
     >>],
    [atomicNumber |-> 109, symbol |-> "Mt", name |-> "Meitnerium", group |-> 9, period |-> 7,
     category |-> "transition metal",
     isotopes |-> <<
       [element |-> [atomicNumber |-> 109, symbol |-> "Mt"],
        options |-> [name |-> "Meitnerium-278", neutrons |-> 169, bohrModel |-> [shells |-> <<2, 8, 18, 32, 32, 15, 2>>]]],
       [element |-> [atomicNumber |-> 109, symbol |-> "Mt"],
        options |-> [name |-> "Meitnerium-276", neutrons |-> 167, bohrModel |-> [shells |-> <<2, 8, 18, 32, 32, 15, 2>>]]],
       [element |-> [atomicNumber |-> 109, symbol |-> "Mt"],
        options |-> [name |-> "Meitnerium-274", neutrons |-> 165, bohrModel |-> [shells |-> <<2, 8, 18, 32, 32, 15, 2>>]]]
     >>],
    [atomicNumber |-> 110, symbol |-> "Ds", name |-> "Darmstadtium", group |-> 10, period |-> 7,
     category |-> "transition metal",
     isotopes |-> <<
       [element |-> [atomicNumber |-> 110, symbol |-> "Ds"],
        options |-> [name |-> "Darmstadtium-281", neutrons |-> 171, bohrModel |-> [shells |-> <<2, 8, 18, 32, 32, 16, 2>>]]],
       [element |-> [atomicNumber |-> 110, symbol |-> "Ds"],
        options |-> [name |-> "Darmstadtium-279", neutrons |-> 169, bohrModel |-> [shells |-> <<2, 8, 18, 32, 32, 16, 2>>]]],
       [element |-> [atomicNumber |-> 110, symbol |-> "Ds"],
        options |-> [name |-> "Darmstadtium-281m", neutrons |-> 171, bohrModel |-> [shells |-> <<2, 8, 18, 32, 32, 16, 2>>]]]
     >>],
    [atomicNumber |-> 111, symbol |-> "Rg", name |-> "Roentgenium", group |-> 11, period |-> 7,
     category |-> "transition metal",
     isotopes |-> <<
       [element |-> [atomicNumber |-> 111, symbol |-> "Rg"],
        options |-> [name |-> "Roentgenium-282", neutrons |-> 171, bohrModel |-> [shells |-> <<2, 8, 18, 32, 32, 17, 2>>]]],
       [element |-> [atomicNumber |-> 111, symbol |-> "Rg"],
        options |-> [name |-> "Roentgenium-280", neutrons |-> 169, bohrModel |-> [shells |-> <<2, 8, 18, 32, 32, 17, 2>>]]],
       [element |-> [atomicNumber |-> 111, symbol |-> "Rg"],
        options |-> [name |-> "Roentgenium-279", neutrons |-> 168, bohrModel |-> [shells |-> <<2, 8, 18, 32, 32, 17, 2>>]]]
     >>],
    [atomicNumber |-> 112, symbol |-> "Cn", name |-> "Copernicium", group |-> 12, period |-> 7,
     category |-> "transition metal",
     isotopes |-> <<
       [element |-> [atomicNumber |-> 112, symbol |-> "Cn"],
        options |-> [name |-> "Copernicium-285", neutrons |-> 173, bohrModel |-> [shells |-> <<2, 8, 18, 32, 32, 18, 2>>]]],
       [element |-> [atomicNumber |-> 112, symbol |-> "Cn"],
        options |-> [name |-> "Copernicium-283", neutrons |-> 171, bohrModel |-> [shells |-> <<2, 8, 18, 32, 32, 18, 2>>]]],
       [element |-> [atomicNumber |-> 112, symbol |-> "Cn"],
        options |-> [name |-> "Copernicium-281", neutrons |-> 169, bohrModel |-> [shells |-> <<2, 8, 18, 32, 32, 18, 2>>]]]
     >>],
    [atomicNumber |-> 113, symbol |-> "Nh", name |-> "Nihonium", group |-> 13, period |-> 7,
     category |-> "post-transition metal",
     isotopes |-> <<
       [element |-> [atomicNumber |-> 113, symbol |-> "Nh"],
        options |-> [name |-> "Nihonium-286", neutrons |-> 173, bohrModel |-> [shells |-> <<2, 8, 18, 32, 32, 18, 3>>]]],
       [element |-> [atomicNumber |-> 113, symbol |-> "Nh"],
        options |-> [name |-> "Nihonium-284", neutrons |-> 171, bohrModel |-> [shells |-> <<2, 8, 18, 32, 32, 18, 3>>]]],
       [element |-> [atomicNumber |-> 113, symbol |-> "Nh"],
        options |-> [name |-> "Nihonium-285", neutrons |-> 172, bohrModel |-> [shells |-> <<2, 8, 18, 32, 32, 18, 3>>]]]
     >>],
    [atomicNumber |-> 114, symbol |-> "Fl", name |-> "Flerovium", group |-> 14, period |-> 7,
     category |-> "post-transition metal",
     isotopes |-> <<
       [element |-> [atomicNumber |-> 114, symbol |-> "Fl"],
        options |-> [name |-> "Flerovium-289", neutrons |-> 175, bohrModel |-> [shells |-> <<2, 8, 18, 32, 32, 18, 4>>]]],
       [element |-> [atomicNumber |-> 114, symbol |-> "Fl"],
        options |-> [name |-> "Flerovium-288", neutrons |-> 174, bohrModel |-> [shells |-> <<2, 8, 18, 32, 32, 18, 4>>]]],
       [element |-> [atomicNumber |-> 114, symbol |-> "Fl"],
        options |-> [name |-> "Flerovium-290", neutrons |-> 176, bohrModel |-> [shells |-> <<2, 8, 18, 32, 32, 18, 4>>]]]
     >>],
    [atomicNumber |-> 115, symbol |-> "Mc", name |-> "Moscovium", group |-> 15, period |-> 7,
     category |-> "post-transition metal",
     isotopes |-> <<
       [element |-> [atomicNumber |-> 115, symbol |-> "Mc"],
        options |-> [name |-> "Moscovium-290", neutrons |-> 175, bohrModel |-> [shells |-> <<2, 8, 18, 32, 32, 18, 5>>]]],
       [element |-> [atomicNumber |-> 115, symbol |-> "Mc"],
        options |-> [name |-> "Moscovium-289", neutrons |-> 174, bohrModel |-> [shells |-> <<2, 8, 18, 32, 32, 18, 5>>]]],
       [element |-> [atomicNumber |-> 115, symbol |-> "Mc"],
        options |-> [name |-> "Moscovium-288", neutrons |-> 173, bohrModel |-> [shells |-> <<2, 8, 18, 32, 32, 18, 5>>]]]
     >>],
    [atomicNumber |-> 116, symbol |-> "Lv", name |-> "Livermorium", group |-> 16, period |-> 7,
     category |-> "post-transition metal",
     isotopes |-> <<
       [element |-> [atomicNumber |-> 116, symbol |-> "Lv"],
        options |-> [name |-> "Livermorium-293", neutrons |-> 177, bohrModel |-> [shells |-> <<2, 8, 18, 32, 32, 18, 6>>]]],
       [element |-> [atomicNumber |-> 116, symbol |-> "Lv"],
        options |-> [name |-> "Livermorium-292", neutrons |-> 176, bohrModel |-> [shells |-> <<2, 8, 18, 32, 32, 18, 6>>]]],
       [element |-> [atomicNumber |-> 116, symbol |-> "Lv"],
        options |-> [name |-> "Livermorium-291", neutrons |-> 175, bohrModel |-> [shells |-> <<2, 8, 18, 32, 32, 18, 6>>]]]
     >>],
    [atomicNumber |-> 117, symbol |-> "Ts", name |-> "Tennessine", group |-> 17, period |-> 7,
     category |-> "halogen",
     isotopes |-> <<
       [element |-> [atomicNumber |-> 117, symbol |-> "Ts"],
        options |-> [name |-> "Tennessine-294", neutrons |-> 177, bohrModel |-> [shells |-> <<2, 8, 18, 32, 32, 18, 7>>]]],
       [element |-> [atomicNumber |-> 117, symbol |-> "Ts"],
        options |-> [name |-> "Tennessine-293", neutrons |-> 176, bohrModel |-> [shells |-> <<2, 8, 18, 32, 32, 18, 7>>]]],
       [element |-> [atomicNumber |-> 117, symbol |-> "Ts"],
        options |-> [name |-> "Tennessine-292", neutrons |-> 175, bohrModel |-> [shells |-> <<2, 8, 18, 32, 32, 18, 7>>]]]
     >>],
    [atomicNumber |-> 118, symbol |-> "Og", name |-> "Oganesson", group |-> 18, period |-> 7,
     category |-> "noble gas",
     isotopes |-> <<
       [element |-> [atomicNumber |-> 118, symbol |-> "Og"],
        options |-> [name |-> "Oganesson-294", neutrons |-> 176, bohrModel |-> [shells |-> <<2, 8, 18, 32, 32, 18, 8>>]]],
       [element |-> [atomicNumber |-> 118, symbol |-> "Og"],
        options |-> [name |-> "Oganesson-295", neutrons |-> 177, bohrModel |-> [shells |-> <<2, 8, 18, 32, 32, 18, 8>>]]],
       [element |-> [atomicNumber |-> 118, symbol |-> "Og"],
        options |-> [name |-> "Oganesson-296", neutrons |-> 178, bohrModel |-> [shells |-> <<2, 8, 18, 32, 32, 18, 8>>]]]
     >>]
  >>

buildQuarks_swapped(protons, neutrons) ==
  [up |-> protons + neutrons * 2, down |-> protons * 2 + neutrons]

buildQuarks_onePerNeutron(protons, neutrons) ==
  [up |-> protons * 2 + neutrons, down |-> protons + neutrons]

buildQuarks(protons, neutrons) ==
  [up |-> protons * 2 + neutrons, down |-> protons + neutrons * 2]

buildIsotope_shellSum(elementArg, options) ==
  LET neutrons == options.neutrons
      positrons == IF "positrons" \in DOMAIN options THEN options.positrons ELSE 0
      protons == elementArg.atomicNumber
      electrons == SumSeq(options.bohrModel.shells)
  IN  [id |-> elementArg.symbol \o "-" \o ToString(protons + neutrons),
       particleBreakdown |->
         [protons |-> protons, neutrons |-> neutrons, electrons |-> electrons,
          positrons |-> positrons, quarks |-> buildQuarks(protons, neutrons)]]
      @@ options

buildIsotope_neutronsFromProtons(elementArg, options) ==
  LET neutrons == options.neutrons
      positrons == IF "positrons" \in DOMAIN options THEN options.positrons ELSE 0
      protons == elementArg.atomicNumber
      electrons == MathMax(protons - positrons, 0)
  IN  [id |-> elementArg.symbol \o "-" \o ToString(protons + neutrons),
       particleBreakdown |->
         [protons |-> protons, neutrons |-> protons, electrons |-> electrons,
          positrons |-> positrons, quarks |-> buildQuarks(protons, neutrons)]]
      @@ options

buildIsotope_unclamped(elementArg, options) ==
  LET neutrons == options.neutrons
      positrons == IF "positrons" \in DOMAIN options THEN options.positrons ELSE 0
      protons == elementArg.atomicNumber
      electrons == protons - positrons
  IN  [id |-> elementArg.symbol \o "-" \o ToString(protons + neutrons),
       particleBreakdown |->
         [protons |-> protons, neutrons |-> neutrons, electrons |-> electrons,
          positrons |-> positrons, quarks |-> buildQuarks(protons, neutrons)]]
      @@ options

buildIsotope(elementArg, options) ==
  LET neutrons == options.neutrons
      positrons == IF "positrons" \in DOMAIN options THEN options.positrons ELSE 0
      protons == elementArg.atomicNumber
      electrons == MathMax(protons - positrons, 0)
  IN  [id |-> elementArg.symbol \o "-" \o ToString(protons + neutrons),
       particleBreakdown |->
         [protons |-> protons, neutrons |-> neutrons, electrons |-> electrons,
          positrons |-> positrons, quarks |-> buildQuarks(protons, neutrons)]]
      @@ options

\* one element record of the array, its isotopes built
buildElement_firstLetter(src, isotopes) ==
  [atomicNumber |-> src.atomicNumber, symbol |-> SubSeq(src.symbol, 1, 1), name |-> src.name,
   group |-> src.group, period |-> src.period, category |-> src.category,
   isotopes |-> isotopes]

buildElement(src, isotopes) ==
  [atomicNumber |-> src.atomicNumber, symbol |-> src.symbol, name |-> src.name,
   group |-> src.group, period |-> src.period, category |-> src.category,
   isotopes |-> isotopes]

\* the exported array, once the module is initialised
elements ==
  [e \in 1..Len(elementsSource) |->
     buildElement(elementsSource[e],
       [i \in 1..Len(elementsSource[e].isotopes) |->
          buildIsotope(elementsSource[e].isotopes[i].element,
                       elementsSource[e].isotopes[i].options)])]

----------------------------------------------------------------------------
(* Module initialisation of elements.ts: the array literal is evaluated    *)
(* element by element, each isotope by one call of buildIsotope.           *)

UiIdle ==
  /\ element = Null
  /\ activeElement = Null
  /\ activeIsotope = Null
  /\ bohrView = Null
  /\ arenaView = Null
  /\ memo = <<>>

InitData ==
  /\ moduleElements = <<>>
  /\ moduleIsotopes = <<>>
  /\ UiIdle
  /\ ServerIdle
  /\ TableIdle
  /\ PaletteIdle

\* the element literal under construction
CurrentSource == elementsSource[Len(moduleElements) + 1]

BuildIsotopeCall ==
  /\ Len(moduleElements) < Len(elementsSource)
  /\ Len(moduleIsotopes) < Len(CurrentSource.isotopes)
  /\ LET call == CurrentSource.isotopes[Len(moduleIsotopes) + 1]
     IN  moduleIsotopes' = Append(moduleIsotopes, buildIsotope(call.element, call.options))
  /\ UNCHANGED <<paletteVars, moduleElements, uiVars, serverVars, tableVars>>

CloseElement ==
  /\ Len(moduleElements) < Len(elementsSource)
  /\ Len(moduleIsotopes) = Len(CurrentSource.isotopes)
  /\ moduleElements' = Append(moduleElements, buildElement(CurrentSource, moduleIsotopes))
  /\ moduleIsotopes' = <<>>
  /\ UNCHANGED <<paletteVars, uiVars, serverVars, tableVars>>

NextData == BuildIsotopeCall \/ CloseElement

SpecData == InitData /\ [][NextData]_vars

----------------------------------------------------------------------------
(* Properties of module initialisation (SpecData)                          *)

\* every buildIsotope call evaluated so far, paired with the isotope it returned
BuiltCalls ==
  UNION {{[call |-> elementsSource[e].isotopes[i], isotope |-> moduleElements[e].isotopes[i]] :
            i \in 1..Len(moduleElements[e].isotopes)} : e \in 1..Len(moduleElements)}
  \cup {[call |-> CurrentSource.isotopes[i], isotope |-> moduleIsotopes[i]] :
          i \in 1..Len(moduleIsotopes)}

\* the positron count an options literal declares (0 when it declares none)
DeclaredPositrons(options) ==
  IF "positrons" \in DOMAIN options THEN options.positrons ELSE 0

\* C9: every isotope built by buildIsotope has electrons = protons - positrons,
\* with protons the atomic number handed in and positrons the declared count or
\* 0 when none is declared, whatever shells the literal declares.
C9_ElectronsAreProtonsMinusPositrons ==
  \A b \in BuiltCalls :
    /\ b.isotope.particleBreakdown.protons = b.call.element.atomicNumber
    /\ b.isotope.particleBreakdown.positrons = DeclaredPositrons(b.call.options)
    /\ b.isotope.particleBreakdown.electrons =
         b.call.element.atomicNumber - DeclaredPositrons(b.call.options)

\* Fluorine-18 (9 protons, 1 positron, shells 2,7: 8 electrons) and Carbon-14
\* (no positrons declared: 6 electrons, 0 positrons) have both been built
C9_Witness ==
  /\ \E b \in BuiltCalls :
       /\ b.isotope.id = "F-18"
       /\ b.call.options.positrons = 1
       /\ b.isotope.bohrModel.shells = <<2, 7>>
       /\ b.isotope.particleBreakdown.electrons = 8
  /\ \E b \in BuiltCalls :
       /\ b.isotope.id = "C-14"
       /\ "positrons" \notin DOMAIN b.call.options
       /\ b.isotope.particleBreakdown.electrons = 6
       /\ b.isotope.particleBreakdown.positrons = 0

\* C10: every isotope built by buildIsotope from p protons and n neutrons has
\* quarks.up = 2p + n and quarks.down = p + 2n.
C10_QuarkFormulas ==
  \A b \in BuiltCalls :
    LET p == b.call.element.atomicNumber
        n == b.call.options.neutrons
    IN  /\ b.isotope.particleBreakdown.quarks.up = 2 * p + n
        /\ b.isotope.particleBreakdown.quarks.down = p + 2 * n

\* Carbon-14 (p = 6, n = 8) has been built with up = 20 and down = 22
C10_Witness ==
  \E b \in BuiltCalls :
    /\ b.isotope.id = "C-14"
    /\ b.call.element.atomicNumber = 6
    /\ b.call.options.neutrons = 8
    /\ b.isotope.particleBreakdown.quarks = [up |-> 20, down |-> 22]

\* every isotope record of the array as far as it is built, with its element
\* (the element under construction included)
BuiltIsotopes ==
  {b.isotope : b \in BuiltCalls}

\* C11: for every isotope of the dataset the sum of its shells equals
\* its proton count minus its positron count, i.e. particleBreakdown.electrons.
C11_ShellSumIsElectrons ==
  \A iso \in BuiltIsotopes :
    /\ SumSeq(iso.bohrModel.shells)
         = iso.particleBreakdown.protons - iso.particleBreakdown.positrons
    /\ SumSeq(iso.bohrModel.shells) = iso.particleBreakdown.electrons

\* C12: every isotope id is the element symbol, a hyphen and the mass number
\* (protons + neutrons), and no two isotopes of one element share an id.
C12_IdsDerivedAndUnique ==
  /\ \A b \in BuiltCalls :
       b.isotope.id = b.call.element.symbol \o "-"
                      \o ToString(b.call.element.atomicNumber + b.call.options.neutrons)
  /\ \A e \in 1..Len(moduleElements) :
       \A i, j \in 1..Len(moduleElements[e].isotopes) :
         i # j => moduleElements[e].isotopes[i].id # moduleElements[e].isotopes[j].id
  /\ \A i, j \in 1..Len(moduleIsotopes) :
       i # j => moduleIsotopes[i].id # moduleIsotopes[j].id

\* C17: for every element of the dataset and every isotope in its list, the
\* isotope's protons are the element's atomic number, its particleBreakdown
\* neutrons are its neutrons field, and its id starts with the element's symbol.
C17_IsotopesAgreeWithElement ==
  \A e \in 1..Len(moduleElements) :
    \A i \in 1..Len(moduleElements[e].isotopes) :
      LET el == moduleElements[e]
          iso == el.isotopes[i]
      IN  /\ iso.particleBreakdown.protons = el.atomicNumber
          /\ iso.particleBreakdown.neutrons = iso.neutrons
          /\ Len(iso.id) > Len(el.symbol)
          /\ SubSeq(iso.id, 1, Len(el.symbol) + 1) = el.symbol \o "-"
          /\ elementsSource[e].isotopes[i].element
               = [atomicNumber |-> el.atomicNumber, symbol |-> el.symbol]

\* Osmium is built with its three isotopes of 76 protons
C17_Witness ==
  \E e \in 1..Len(moduleElements) :
    /\ moduleElements[e].symbol = "Os"
    /\ moduleElements[e].atomicNumber = 76
    /\ Len(moduleElements[e].isotopes) = 3
    /\ \A i \in 1..3 :
         /\ moduleElements[e].isotopes[i].particleBreakdown.protons = 76
         /\ SubSeq(moduleElements[e].isotopes[i].id, 1, 3) = "Os-"

----------------------------------------------------------------------------
(* components/PeriodicTable.tsx: the Bohr view                             *)

\* rotate(...) of one electron marker, in degrees
ElectronAngle_fromOne(electronCount, electronIndex) ==
  Mul(Div(Num(360), Num(electronCount)), Num(electronIndex + 1))

ElectronAngle(electronCount, electronIndex) ==
  Mul(Div(Num(360), Num(electronCount)), Num(electronIndex))

ElectronMarkers_atLeastOne(electronCount, radius) ==
  [k \in ArrayFrom(MathMax(electronCount, 1)) |->
     [rotate |-> ElectronAngle(electronCount, k - 1),
      translateX |-> radius]]

ElectronMarkers_capped(electronCount, radius) ==
  [k \in ArrayFrom(MathMin(electronCount, 24)) |->
     [rotate |-> ElectronAngle(electronCount, k - 1),
      translateX |-> radius]]

\* Array.from({ length: electronCount }).map(...): the electron markers of one ring
ElectronMarkers(electronCount, radius) ==
  [k \in ArrayFrom(electronCount) |->
     [rotate |-> ElectronAngle(electronCount, k - 1),
      translateX |-> radius]]

bohrDiagramSize_uncapped(shellCount) == 300 + MathMax(shellCount - 3, 0) * 48

bohrDiagramSize(shellCount) == MathMin(480, 300 + MathMax(shellCount - 3, 0) * 48)

bohrNucleusSize(shellCount) == MathMin(120, MathMax(72, 54 + shellCount * 6))

bohrOrbitSpacing_unguarded(shellCount, diagramSize, nucleusRadius) ==
  Div(Sub(Sub(Div(Num(diagramSize), Num(2)), Num(20)), nucleusRadius), Num(shellCount))

bohrOrbitSpacing(shellCount, diagramSize, nucleusRadius) ==
  IF shellCount > 0
  THEN Div(Sub(Sub(Div(Num(diagramSize), Num(2)), Num(20)), nucleusRadius), Num(shellCount))
  ELSE Num(0)

\* shells.map((electronCount, shellIndex) => ...): one ring per shell
bohrShells_fromNucleus(shells, nucleusRadius, orbitSpacing) ==
  [i \in DOMAIN shells |->
     LET electronCount == shells[i]
         shellIndex == i - 1
         radius == Add(nucleusRadius, Mul(orbitSpacing, Num(shellIndex)))
         duration == 14 + shellIndex * 5
     IN  [width |-> Mul(radius, Num(2)),
          animationDuration |-> duration,
          electrons |-> ElectronMarkers(electronCount, radius)]]

bohrShells(shells, nucleusRadius, orbitSpacing) ==
  [i \in DOMAIN shells |->
     LET electronCount == shells[i]
         shellIndex == i - 1
         radius == Add(nucleusRadius, Mul(orbitSpacing, Num(shellIndex + 1)))
         duration == 14 + shellIndex * 5
     IN  [width |-> Mul(radius, Num(2)),
          animationDuration |-> duration,
          electrons |-> ElectronMarkers(electronCount, radius)]]

BohrModelView(isotope) ==
  LET shells == isotope.bohrModel.shells
      shellCount == Len(shells)
      diagramSize == bohrDiagramSize(shellCount)
      nucleusSize == bohrNucleusSize(shellCount)
      nucleusRadius == Div(Num(nucleusSize), Num(2))
      orbitSpacing == bohrOrbitSpacing(shellCount, diagramSize, nucleusRadius)
  IN  [diagramSize |-> diagramSize,
       nucleusSize |-> nucleusSize,
       nucleusRadius |-> nucleusRadius,
       orbitSpacing |-> orbitSpacing,
       protons |-> isotope.particleBreakdown.protons,
       neutrons |-> isotope.particleBreakdown.neutrons,
       shells |-> bohrShells(shells, nucleusRadius, orbitSpacing)]

----------------------------------------------------------------------------
(* components/PeriodicTable.tsx: the quantum arena                         *)

nucleusLimit == 28

mistLimit == 24

renderNucleusSwarm_uncapped(protons, neutrons) ==
  LET total == protons + neutrons
  IN  [k \in ArrayFrom(total) |->
         LET index == k - 1
         IN  [turn |-> Div(Num(index), Num(total)),
              radius |-> 24,
              depthArg |-> index,
              isProton |-> index % 2 = 0,
              background |-> IF index % 2 = 0 THEN "#fb7185" ELSE "#38bdf8",
              animationDelay |-> Frac(index * 12, 100)]]

renderNucleusSwarm_byCounts(protons, neutrons) ==
  LET limit == nucleusLimit
      total == MathMin(protons + neutrons, limit)
  IN  [k \in ArrayFrom(total) |->
         LET index == k - 1
         IN  [turn |-> Div(Num(index), Num(total)),
              radius |-> 24,
              depthArg |-> index,
              isProton |-> index < protons,
              background |-> IF index < protons THEN "#fb7185" ELSE "#38bdf8",
              animationDelay |-> Frac(index * 12, 100)]]

\* one marker per node: turn is angle / (2 pi), depthArg the argument of Math.sin
renderNucleusSwarm(protons, neutrons) ==
  LET limit == nucleusLimit
      total == MathMin(protons + neutrons, limit)
  IN  [k \in ArrayFrom(total) |->
         LET index == k - 1
         IN  [turn |-> Div(Num(index), Num(total)),
              radius |-> 24,
              depthArg |-> index,
              isProton |-> index % 2 = 0,
              background |-> IF index % 2 = 0 THEN "#fb7185" ELSE "#38bdf8",
              animationDelay |-> Frac(index * 12, 100)]]

buildParticleDescriptors_uncapped(count, color) ==
  LET limit == count
  IN  [k \in ArrayFrom(limit) |->
         LET index == k - 1
         IN  [color |-> color,
              delay |-> Frac(index * 18, 100),
              turn |-> Div(Num(index), Num(MathMax(limit, 1))),
              zArg |-> Frac(index * 15, 10)]]

\* turn is angle / (2 pi) (x = cos(angle) * 110, y = sin(angle) * 90),
\* zArg the argument of Math.sin in z
buildParticleDescriptors(count, color) ==
  LET limit == MathMin(count, mistLimit)
  IN  [k \in ArrayFrom(limit) |->
         LET index == k - 1
         IN  [color |-> color,
              delay |-> Frac(index * 18, 100),
              turn |-> Div(Num(index), Num(MathMax(limit, 1))),
              zArg |-> Frac(index * 15, 10)]]

ParticleMist_accumulating(quarksUp, quarksDown, positrons) ==
  (IF arenaView # Null THEN arenaView.mist ELSE <<>>)
  \o Concat(<<buildParticleDescriptors(quarksUp, "#c084fc"),
              buildParticleDescriptors(quarksDown, "#818cf8"),
              buildParticleDescriptors(positrons, "#facc15")>>)

ParticleMist(quarksUp, quarksDown, positrons) ==
  Concat(<<buildParticleDescriptors(quarksUp, "#c084fc"),
           buildParticleDescriptors(quarksDown, "#818cf8"),
           buildParticleDescriptors(positrons, "#facc15")>>)

\* particleBreakdown.positrons ?? 0
positronsOrZero(particleBreakdown) ==
  IF "positrons" \in DOMAIN particleBreakdown THEN particleBreakdown.positrons ELSE 0

arenaStageSize(shellCount) == MathMin(460, 360 + MathMax(shellCount - 3, 0) * 42)

arenaNucleusSize(protons) ==
  FracMin(Num(150), Add(Num(120), Mul(Num(MathMin(protons, 60)), Frac(35, 100))))

arenaOrbitSpacing_fromCentre(shellCount, stageSize, nucleusRadius) ==
  IF shellCount > 0
  THEN Div(Sub(Div(Num(stageSize), Num(2)), Num(36)), Num(shellCount))
  ELSE Num(0)

arenaOrbitSpacing(shellCount, stageSize, nucleusRadius) ==
  IF shellCount > 0
  THEN Div(Sub(Sub(Div(Num(stageSize), Num(2)), nucleusRadius), Num(36)), Num(shellCount))
  ELSE Num(0)

\* shells.map((_, index) => nucleusRadius + orbitSpacing * (index + 1))
arenaOrbitRadii(shells, nucleusRadius, orbitSpacing) ==
  [i \in DOMAIN shells |-> Add(nucleusRadius, Mul(orbitSpacing, Num((i - 1) + 1)))]

\* orbitRadii.map((radius, index) => ...): one orbit per radius
arenaOrbits_byElectrons(shells, orbitRadii) ==
  [i \in DOMAIN orbitRadii |->
     LET radius == orbitRadii[i]
         electrons == shells[i]
     IN  [width |-> Mul(radius, Num(2)),
          animationDuration |-> 18 + electrons * 6,
          electrons |-> ElectronMarkers(electrons, radius)]]

arenaOrbits(shells, orbitRadii) ==
  [i \in DOMAIN orbitRadii |->
     LET radius == orbitRadii[i]
         index == i - 1
         electrons == shells[i]
     IN  [width |-> Mul(radius, Num(2)),
          animationDuration |-> 18 + index * 6,
          electrons |-> ElectronMarkers(electrons, radius)]]

IsotopeVisualizer(isotope) ==
  LET particleBreakdown == isotope.particleBreakdown
      shells == isotope.bohrModel.shells
      shellCount == Len(shells)
      stageSize == arenaStageSize(shellCount)
      arenaHeight == stageSize + 100
      nucleusSize == arenaNucleusSize(particleBreakdown.protons)
      nucleusRadius == Div(nucleusSize, Num(2))
      orbitSpacing == arenaOrbitSpacing(shellCount, stageSize, nucleusRadius)
      orbitRadii == arenaOrbitRadii(shells, nucleusRadius, orbitSpacing)
  IN  [stageSize |-> stageSize,
       arenaHeight |-> arenaHeight,
       nucleusSize |-> nucleusSize,
       nucleusRadius |-> nucleusRadius,
       orbitSpacing |-> orbitSpacing,
       swarm |-> renderNucleusSwarm(particleBreakdown.protons, particleBreakdown.neutrons),
       orbits |-> arenaOrbits(shells, orbitRadii),
       mist |-> ParticleMist(particleBreakdown.quarks.up, particleBreakdown.quarks.down,
                             positronsOrZero(particleBreakdown)),
       rows |-> [protons |-> particleBreakdown.protons,
                 neutrons |-> particleBreakdown.neutrons,
                 electrons |-> particleBreakdown.electrons,
                 quarks |-> particleBreakdown.quarks,
                 positrons |-> positronsOrZero(particleBreakdown)]]

----------------------------------------------------------------------------
(* The element modal of PeriodicTable: a tile is clicked, isotopes are     *)
(* selected, the modal is closed.  The tile's element is drawn from the    *)
(* dataset and from element records built by buildIsotope from bounded     *)
(* arguments, among them ones the dataset never holds (no shells, a shell  *)
(* of 0 electrons, no nucleons, counts far above the rendering caps).      *)

MaxShells == 2

MaxShellCount == 12

RECURSIVE SeqsUpTo(_, _)
SeqsUpTo(S, n) ==
  IF n = 0 THEN {<<>>}
  ELSE LET shorter == SeqsUpTo(S, n - 1)
       IN  shorter \cup {Append(s, x) : s \in shorter, x \in S}

\* electron counts of a drawn shell, 0 among them
ShellEntries == {0, 1, 3}

\* shell sequences: every one of up to MaxShells entries, the shells of
\* Carbon-14, Fluorine-18 and Oganesson, one with an empty shell between
\* occupied ones, and one-electron shells up to MaxShellCount rings
ShellSeqs ==
  SeqsUpTo(ShellEntries, MaxShells)
  \cup {<<2, 4>>, <<2, 7>>, <<2, 0, 3>>, <<2, 8, 18, 32, 32, 18, 8>>}
  \cup {[i \in 1..k |-> 1] : k \in 0..MaxShellCount}

AtomicNumbers == {0, 1, 9, 200}

\* the isotopes of a drawn element: no and one neutron without declared
\* positrons, one positron emitter, and one far above every rendering cap
IsotopeOptions(shells) ==
  <<[name |-> "drawn", neutrons |-> 0, bohrModel |-> [shells |-> shells]],
    [name |-> "drawn", neutrons |-> 1, bohrModel |-> [shells |-> shells]],
    [name |-> "drawn", neutrons |-> 8, positrons |-> 1, bohrModel |-> [shells |-> shells]],
    [name |-> "drawn", neutrons |-> 100, positrons |-> 30, bohrModel |-> [shells |-> shells]]>>

DrawnElement(atomicNumber, shells) ==
  [atomicNumber |-> atomicNumber, symbol |-> "X", name |-> "drawn", group |-> 1, period |-> 1,
   category |-> "drawn",
   isotopes |-> [i \in DOMAIN IsotopeOptions(shells) |->
                   buildIsotope([atomicNumber |-> atomicNumber, symbol |-> "X"],
                                IsotopeOptions(shells)[i])]]

\* an element record without isotopes
BareElement ==
  [atomicNumber |-> 1, symbol |-> "X", name |-> "drawn", group |-> 1, period |-> 1,
   category |-> "drawn", isotopes |-> <<>>]

Catalogue ==
  {elements[e] : e \in DOMAIN elements}
  \cup {DrawnElement(z, shells) : z \in AtomicNumbers, shells \in ShellSeqs}
  \cup {BareElement}

ModalShown == activeElement # Null /\ activeIsotope # Null

\* what the modal shows for an isotope, with the first render since Init kept
\* in memo together with what was rendered after it
Snapshot(isotope, bohr, arena) ==
  [isotope |-> isotope, bohrView |-> bohr, arenaView |-> arena,
   rendersSince |-> 0, otherSince |-> FALSE]

Remember(isotope, bohr, arena) ==
  IF memo = <<>> THEN Snapshot(isotope, bohr, arena)
  ELSE [memo EXCEPT !.rendersSince = MathMin(@ + 1, 2),
                    !.otherSince = @ \/ isotope # memo.isotope]

\* {activeElement && activeIsotope && <ElementModal .../>}: both views are
\* rendered for the isotope, or nothing is
RenderModal(newElement, newIsotope) ==
  IF newElement # Null /\ newIsotope # Null
  THEN /\ bohrView' = BohrModelView(newIsotope)
       /\ arenaView' = IsotopeVisualizer(newIsotope)
       /\ memo' = Remember(newIsotope, bohrView', arenaView')
  ELSE /\ bohrView' = Null
       /\ arenaView' = Null
       /\ memo' = memo

Init ==
  /\ element \in Catalogue
  /\ activeElement = Null
  /\ activeIsotope = Null
  /\ bohrView = Null
  /\ arenaView = Null
  /\ memo = <<>>
  /\ moduleElements = <<>>
  /\ moduleIsotopes = <<>>
  /\ ServerIdle
  /\ TableIdle
  /\ PaletteIdle

\* onClick of the element's tile
TileClick ==
  /\ activeElement' = element
  /\ activeIsotope' = IF Len(element.isotopes) > 0 THEN element.isotopes[1] ELSE Null
  /\ RenderModal(activeElement', activeIsotope')
  /\ UNCHANGED <<paletteVars, element, dataVars, serverVars, tableVars>>

\* onClick of an isotope button of the modal
OnSelectIsotope(option) ==
  /\ ModalShown
  /\ activeIsotope' = option
  /\ RenderModal(activeElement, activeIsotope')
  /\ UNCHANGED <<paletteVars, element, activeElement, dataVars, serverVars, tableVars>>

\* onClick of the modal's close button
OnClose_elementOnly ==
  /\ ModalShown
  /\ activeElement' = Null
  /\ activeIsotope' = activeIsotope
  /\ RenderModal(activeElement', activeIsotope')
  /\ UNCHANGED <<paletteVars, element, dataVars, serverVars, tableVars>>

OnClose ==
  /\ ModalShown
  /\ activeElement' = Null
  /\ activeIsotope' = Null
  /\ RenderModal(activeElement', activeIsotope')
  /\ UNCHANGED <<paletteVars, element, dataVars, serverVars, tableVars>>

Next ==
  \/ TileClick
  \/ (ModalShown /\ \E i \in DOMAIN activeElement.isotopes :
                      OnSelectIsotope(activeElement.isotopes[i]))
  \/ OnClose

Spec == Init /\ [][Next]_vars

----------------------------------------------------------------------------
(* Properties of the rendered modal (Spec)                                 *)

\* the shells of the isotope the modal shows
ShownShells == activeIsotope.bohrModel.shells

\* the electron markers of ring i in the Bohr view and in the arena
BohrElectrons(i) == bohrView.shells[i].electrons

ArenaElectrons(i) == arenaView.orbits[i].electrons

\* n markers on the ring of the given width, marker k (from 0) at (360/n)*k
\* degrees: from 0, 360/n apart, pairwise distinct, all below 360
EvenlySpaced(markers, n, width) ==
  /\ Len(markers) = n
  /\ markers[1].rotate = Num(0)
  /\ \A k \in 1..n :
       /\ IsFinite(markers[k].rotate)
       /\ markers[k].rotate = Frac(360 * (k - 1), n)
       /\ Less(markers[k].rotate, Num(360))
       /\ Mul(markers[k].translateX, Num(2)) = width
  /\ \A k \in 1..(n - 1) : Sub(markers[k + 1].rotate, markers[k].rotate) = Frac(360, n)
  /\ \A j, k \in 1..n : j # k => markers[j].rotate # markers[k].rotate

\* C1: for every shell with n >= 1 electrons both views put exactly n electron
\* markers on that shell's ring, the k-th at (360/n)*k degrees: starting at 0,
\* evenly spaced by 360/n, pairwise distinct and all below 360.
C1_ElectronsEvenlySpaced ==
  ModalShown =>
    \A i \in DOMAIN ShownShells :
      ShownShells[i] >= 1 =>
        /\ EvenlySpaced(BohrElectrons(i), ShownShells[i], bohrView.shells[i].width)
        /\ EvenlySpaced(ArenaElectrons(i), ShownShells[i], arenaView.orbits[i].width)

\* a shell of 7 electrons is shown: 7 markers in each view, the second at 360/7
C1_Witness ==
  /\ ModalShown
  /\ ShownShells = <<2, 7>>
  /\ Len(BohrElectrons(2)) = 7
  /\ Len(ArenaElectrons(2)) = 7
  /\ BohrElectrons(2)[2].rotate = [num |-> 360, den |-> 7]
  /\ ArenaElectrons(2)[7].rotate = [num |-> 2160, den |-> 7]

\* the diagram size by cases of the shell count
DiagramSizeByCases(k) ==
  IF k <= 3 THEN 300 ELSE IF k >= 7 THEN 480 ELSE 300 + (k - 3) * 48

\* C2: for every shell count k the Bohr diagram size is
\* min(480, 300 + max(k - 3, 0) * 48): never above 480, non-decreasing in k,
\* 300 for k <= 3 and 480 from k = 7 on.
C2_DiagramSizeCapped ==
  ModalShown =>
    LET k == Len(ShownShells)
        d == bohrView.diagramSize
    IN  /\ d <= 480
        /\ d = DiagramSizeByCases(k)
        /\ d = (IF 480 <= 300 + (IF k - 3 >= 0 THEN k - 3 ELSE 0) * 48
                THEN 480 ELSE 300 + (IF k - 3 >= 0 THEN k - 3 ELSE 0) * 48)
        /\ \A j \in 0..k : bohrDiagramSize(j) <= d
        /\ d <= bohrDiagramSize(k + 1)

\* eight shells are shown in a diagram of the capped size
C2_Witness ==
  /\ ModalShown
  /\ Len(ShownShells) = 8
  /\ bohrView.diagramSize = 480

\* C3: with no shells neither view divides by the shell count: orbitSpacing is
\* 0, no ring and no electron marker is produced, only the nucleus is laid out.
C3_NoShells ==
  (ModalShown /\ ShownShells = <<>>) =>
    /\ bohrView.orbitSpacing = Num(0)
    /\ arenaView.orbitSpacing = Num(0)
    /\ bohrView.shells = <<>>
    /\ arenaView.orbits = <<>>
    /\ bohrView.nucleusSize = 72
    /\ IsFinite(bohrView.nucleusRadius)
    /\ IsFinite(arenaView.nucleusSize)
    /\ IsFinite(arenaView.nucleusRadius)

\* an isotope without shells is shown
C3_Witness ==
  /\ ModalShown
  /\ ShownShells = <<>>
  /\ bohrView.diagramSize = 300
  /\ bohrView.nucleusRadius = Num(36)
  /\ arenaView.stageSize = 360

\* every electron angle of both views is a finite number
AnglesFinite ==
  \A i \in DOMAIN ShownShells :
    /\ \A k \in DOMAIN BohrElectrons(i) : IsFinite(BohrElectrons(i)[k].rotate)
    /\ \A k \in DOMAIN ArenaElectrons(i) : IsFinite(ArenaElectrons(i)[k].rotate)

\* C4: when a shells entry is 0 the layout is still produced, 360/0 is not
\* evaluated, that entry gets no electron markers, and every other shell gets
\* its own.
C4_EmptyShellOmitted ==
  (ModalShown /\ \E i \in DOMAIN ShownShells : ShownShells[i] = 0) =>
    /\ bohrView # Null /\ arenaView # Null
    /\ Len(bohrView.shells) = Len(ShownShells)
    /\ Len(arenaView.orbits) = Len(ShownShells)
    /\ AnglesFinite
    /\ \A i \in DOMAIN ShownShells :
         /\ ShownShells[i] = 0 => BohrElectrons(i) = <<>> /\ ArenaElectrons(i) = <<>>
         /\ Len(BohrElectrons(i)) = ShownShells[i]
         /\ Len(ArenaElectrons(i)) = ShownShells[i]

\* shells 2, 0, 3 are shown: two markers, none, three
C4_Witness ==
  /\ ModalShown
  /\ ShownShells = <<2, 0, 3>>
  /\ Len(BohrElectrons(1)) = 2 /\ BohrElectrons(2) = <<>> /\ Len(BohrElectrons(3)) = 3
  /\ Len(ArenaElectrons(1)) = 2 /\ ArenaElectrons(2) = <<>> /\ Len(ArenaElectrons(3)) = 3

\* the number of descriptors a category of the given count may show
MistShare(count) == IF count <= 24 THEN (IF count >= 0 THEN count ELSE 0) ELSE 24

\* C5: each mist category holds exactly min(count, 24) descriptors (24 for a
\* count of 500), so the mist holds min(up,24) + min(down,24) + min(positrons,24)
\* <= 72 descriptors, up-quarks first, then down-quarks, then positrons.
C5_MistCapped ==
  ModalShown =>
    LET pb == activeIsotope.particleBreakdown
        u == MistShare(pb.quarks.up)
        d == MistShare(pb.quarks.down)
        q == MistShare(pb.positrons)
        mist == arenaView.mist
    IN  /\ Len(mist) = u + d + q
        /\ Len(mist) <= 72
        /\ \A k \in DOMAIN mist :
             mist[k].color = (IF k <= u THEN "#c084fc"
                              ELSE IF k <= u + d THEN "#818cf8" ELSE "#facc15")

\* 500 up-quarks are shown by exactly 24 descriptors
C5_Witness ==
  /\ ModalShown
  /\ activeIsotope.particleBreakdown.quarks.up = 500
  /\ Cardinality({k \in DOMAIN arenaView.mist : arenaView.mist[k].color = "#c084fc"}) = 24
  /\ Len(arenaView.mist) = 72

\* C6: the nucleus swarm holds exactly min(protons + neutrons, 28) markers,
\* never more than 28, and none (and no index / 0) without nucleons.
C6_SwarmCapped ==
  ModalShown =>
    LET nucleons == activeIsotope.particleBreakdown.protons
                    + activeIsotope.particleBreakdown.neutrons
        swarm == arenaView.swarm
    IN  /\ Len(swarm) = (IF nucleons <= 28 THEN nucleons ELSE 28)
        /\ Len(swarm) <= 28
        /\ nucleons = 0 => swarm = <<>>
        /\ \A k \in DOMAIN swarm : IsFinite(swarm[k].turn)

\* an isotope of more than 28 nucleons is shown with 28 markers
C6_Witness ==
  /\ ModalShown
  /\ activeIsotope.particleBreakdown.protons + activeIsotope.particleBreakdown.neutrons > 28
  /\ Len(arenaView.swarm) = 28

\* the electron markers of a view, over all its rings
BohrElectronCount == SumSeq([i \in DOMAIN bohrView.shells |-> Len(BohrElectrons(i))])

ArenaElectronCount == SumSeq([i \in DOMAIN arenaView.orbits |-> Len(ArenaElectrons(i))])

\* all markers of the arena: nucleus markers, electron markers, mist descriptors
ArenaMarkerCount == Len(arenaView.swarm) + ArenaElectronCount + Len(arenaView.mist)

\* C7 as stated, read on the dataset's own elements: the markers of either
\* view never exceed a constant that the input does not decide (the caps the
\* code has: 28 nucleus markers and 24 per mist category).
C7_AllMarkersBounded ==
  (ModalShown /\ \E e \in DOMAIN elements : activeElement = elements[e]) =>
    /\ ArenaMarkerCount <= nucleusLimit + 3 * mistLimit
    /\ BohrElectronCount <= nucleusLimit + 3 * mistLimit

\* C7 amended: the nucleus markers and mist descriptors never exceed
\* 28 + 3 * 24 = 100 whatever the input, while the electron markers are not
\* capped: each view shows one per declared electron, the sum of the shells.
C7_CappedPartBounded ==
  ModalShown =>
    /\ Len(arenaView.swarm) + Len(arenaView.mist) <= nucleusLimit + 3 * mistLimit
    /\ BohrElectronCount = SumSeq(ShownShells)
    /\ ArenaElectronCount = SumSeq(ShownShells)
    /\ ArenaMarkerCount = Len(arenaView.swarm) + Len(arenaView.mist) + SumSeq(ShownShells)

\* Oganesson-294 is shown: 118 electron markers in each view, 194 in the arena
C7_Witness ==
  /\ ModalShown
  /\ activeIsotope.id = "Og-294"
  /\ BohrElectronCount = 118
  /\ ArenaMarkerCount = 194

----------------------------------------------------------------------------
(* server/index.ts: the Express routes over the initialised dataset        *)

\* String.prototype.toLowerCase, one character
lowerChar(c) ==
  CASE c = "A" -> "a" [] c = "B" -> "b" [] c = "C" -> "c" [] c = "D" -> "d"
    [] c = "E" -> "e" [] c = "F" -> "f" [] c = "G" -> "g" [] c = "H" -> "h"
    [] c = "I" -> "i" [] c = "J" -> "j" [] c = "K" -> "k" [] c = "L" -> "l"
    [] c = "M" -> "m" [] c = "N" -> "n" [] c = "O" -> "o" [] c = "P" -> "p"
    [] c = "Q" -> "q" [] c = "R" -> "r" [] c = "S" -> "s" [] c = "T" -> "t"
    [] c = "U" -> "u" [] c = "V" -> "v" [] c = "W" -> "w" [] c = "X" -> "x"
    [] c = "Y" -> "y" [] c = "Z" -> "z" [] OTHER -> c

RECURSIVE toLowerCase(_)
toLowerCase(str) ==
  IF Len(str) = 0 THEN ""
  ELSE lowerChar(SubSeq(str, 1, 1)) \o toLowerCase(SubSeq(str, 2, Len(str)))

\* Array.prototype.find: the first item passing the test, or undefined;
\* passes[i] is the result of the test for item i
ArrayFind(array, passes) ==
  LET hits == {i \in 1..Len(array) : passes[i]}
  IN  IF hits = {} THEN Undefined
      ELSE array[CHOOSE i \in hits : \A j \in hits : i <= j]

\* (item) => item.symbol.toLowerCase() === symbol
symbolTest_exact(item, symbol) == item.symbol = symbol

symbolTest(item, symbol) == toLowerCase(item.symbol) = symbol

\* const symbol = req.params.symbol.toLowerCase(); elements.find(...)
findElement(symbolParam) ==
  LET symbol == toLowerCase(symbolParam)
  IN  ArrayFind(moduleElements,
                [i \in 1..Len(moduleElements) |-> symbolTest(moduleElements[i], symbol)])

\* (item) => item.id.toLowerCase() === req.params.isotopeId.toLowerCase()
isotopeTest(item, isotopeIdParam) == toLowerCase(item.id) = toLowerCase(isotopeIdParam)

\* element.isotopes.find(...)
findIsotope_anyElement(elementFound, isotopeIdParam) ==
  LET all == [i \in 1..Len(moduleElements) |->
                ArrayFind(moduleElements[i].isotopes,
                          [k \in 1..Len(moduleElements[i].isotopes) |->
                             isotopeTest(moduleElements[i].isotopes[k], isotopeIdParam)])]
  IN  ArrayFind(all, [i \in 1..Len(all) |-> all[i] # Undefined])

findIsotope(elementFound, isotopeIdParam) ==
  ArrayFind(elementFound.isotopes,
            [k \in 1..Len(elementFound.isotopes) |->
               isotopeTest(elementFound.isotopes[k], isotopeIdParam)])

\* res.json(body) / res.status(code).json(body)
Json(code, body) == [status |-> code, body |-> body]

elementNotFound(symbolParam) ==
  Json(404, [error |-> "Element '" \o symbolParam \o "' not found."])

isotopeNotFound(symbolParam, isotopeIdParam) ==
  Json(404, [error |-> "Isotope '" \o isotopeIdParam \o "' not found for element '"
                       \o symbolParam \o "'."])

\* what each handler sends
healthResponse == Json(200, [status |-> "ok"])

elementsResponse == Json(200, moduleElements)

elementResponse(symbolParam) ==
  LET found == findElement(symbolParam)
  IN  IF found = Undefined THEN elementNotFound(symbolParam)
      ELSE Json(200, found)

isotopeResponse(symbolParam, isotopeIdParam) ==
  LET found == findElement(symbolParam)
  IN  IF found = Undefined THEN elementNotFound(symbolParam)
      ELSE LET isotope == findIsotope(found, isotopeIdParam)
           IN  IF isotope = Undefined THEN isotopeNotFound(symbolParam, isotopeIdParam)
               ELSE Json(200, [element |-> found, isotope |-> isotope])

\* the :symbol and :isotopeId segments the requests are drawn from
RequestSymbols == {"H", "he", "HE", "tc", "Xx"}

RequestIsotopeIds == {"H-1", "he-4", "Tc-99", "tC-98", "He-9"}

\* history: the request answered last is kept as the earlier one, or the one
\* kept before stays
Recall ==
  \/ earlier' = earlier
  \/ /\ earlier = Null
     /\ request # Null
     /\ earlier' = [request |-> request, response |-> response]

Handle(newRequest, newResponse) ==
  /\ request' = newRequest
  /\ response' = newResponse
  /\ Recall
  /\ UNCHANGED <<paletteVars, dataVars, uiVars, tableVars>>

\* app.get("/api/health")
GetHealth ==
  Handle([route |-> "health"], healthResponse)

\* app.get("/api/elements")
GetElements_splicing ==
  /\ request' = [route |-> "elements"]
  /\ response' = elementsResponse
  /\ Recall
  /\ moduleElements' = SubSeq(moduleElements, 2, Len(moduleElements))
  /\ UNCHANGED <<paletteVars, moduleIsotopes, uiVars, tableVars>>

GetElements ==
  Handle([route |-> "elements"], elementsResponse)

\* app.get("/api/elements/:symbol")
GetElement(symbolParam) ==
  Handle([route |-> "element", symbol |-> symbolParam], elementResponse(symbolParam))

\* app.get("/api/elements/:symbol/isotopes/:isotopeId")
GetIsotope(symbolParam, isotopeIdParam) ==
  Handle([route |-> "isotope", symbol |-> symbolParam, isotopeId |-> isotopeIdParam],
         isotopeResponse(symbolParam, isotopeIdParam))

InitServer ==
  /\ moduleElements = elements
  /\ moduleIsotopes = <<>>
  /\ UiIdle
  /\ ServerIdle
  /\ TableIdle
  /\ PaletteIdle

NextServer ==
  \/ GetHealth
  \/ GetElements
  \/ \E symbolParam \in RequestSymbols : GetElement(symbolParam)
  \/ \E symbolParam \in RequestSymbols, isotopeIdParam \in RequestIsotopeIds :
       GetIsotope(symbolParam, isotopeIdParam)

SpecServer == InitServer /\ [][NextServer]_vars

----------------------------------------------------------------------------
(* Properties of the routes (SpecServer)                                   *)

Upper == "ABCDEFGHIJKLMNOPQRSTUVWXYZ"

Lower == "abcdefghijklmnopqrstuvwxyz"

\* two characters are the same letter in either case, or the same character
SameCharIgnoringCase(c, d) ==
  \/ c = d
  \/ \E k \in 1..Len(Upper) : {c, d} = {SubSeq(Upper, k, k), SubSeq(Lower, k, k)}

SameIgnoringCase(a, b) ==
  /\ Len(a) = Len(b)
  /\ \A k \in 1..Len(a) : SameCharIgnoringCase(SubSeq(a, k, k), SubSeq(b, k, k))

\* the dataset elements whose symbol is the requested one ignoring case
ElementsMatching(symbolParam) ==
  {i \in 1..Len(moduleElements) : SameIgnoringCase(moduleElements[i].symbol, symbolParam)}

IsotopesMatching(el, isotopeIdParam) ==
  {k \in 1..Len(el.isotopes) : SameIgnoringCase(el.isotopes[k].id, isotopeIdParam)}

IsElementNotFound(answer, symbolParam) ==
  /\ answer.status = 404
  /\ DOMAIN answer.body = {"error"}
  /\ answer.body.error = "Element '" \o symbolParam \o "' not found."

IsIsotopeNotFound(answer, symbolParam, isotopeIdParam) ==
  /\ answer.status = 404
  /\ DOMAIN answer.body = {"error"}
  /\ answer.body.error = "Isotope '" \o isotopeIdParam \o "' not found for element '"
                         \o symbolParam \o "'."

\* C13: GET /api/elements/:symbol answers with the dataset element whose
\* symbol is the requested one ignoring case, and with 404 and an error body,
\* never an element, when no element matches.
C13_ElementBySymbolIgnoringCase ==
  (request # Null /\ request.route = "element") =>
    LET hits == ElementsMatching(request.symbol)
    IN  IF hits # {}
        THEN /\ response.status = 200
             /\ \E i \in hits : response.body = moduleElements[i]
        ELSE /\ IsElementNotFound(response, request.symbol)
             /\ \A i \in 1..Len(moduleElements) : response.body # moduleElements[i]

\* "HE" is answered with Helium after "Xx" was answered with 404
C13_Witness ==
  /\ request = [route |-> "element", symbol |-> "HE"]
  /\ response.status = 200
  /\ response.body.symbol = "He"
  /\ response.body.atomicNumber = 2
  /\ earlier # Null
  /\ earlier.request = [route |-> "element", symbol |-> "Xx"]
  /\ earlier.response.status = 404

\* C14: GET /api/elements/:symbol/isotopes/:isotopeId answers {element,
\* isotope} with an isotope of the matched element whose id is the requested
\* one ignoring case, the element-not-found 404 when no element matches
\* (whatever the id), and the isotope-not-found 404 when no isotope of that
\* element has the id, even if an isotope of another element has it.
C14_IsotopeWithinElement ==
  (request # Null /\ request.route = "isotope") =>
    LET hits == ElementsMatching(request.symbol)
    IN  IF hits = {}
        THEN IsElementNotFound(response, request.symbol)
        ELSE \E i \in hits :
               LET el == moduleElements[i]
                   isotopeHits == IsotopesMatching(el, request.isotopeId)
               IN  IF isotopeHits = {}
                   THEN IsIsotopeNotFound(response, request.symbol, request.isotopeId)
                   ELSE /\ response.status = 200
                        /\ DOMAIN response.body = {"element", "isotope"}
                        /\ response.body.element = el
                        /\ \E k \in isotopeHits : response.body.isotope = el.isotopes[k]

\* Hydrogen's "H-1" asked of Helium is not found, after "Tc-99" asked of "tc"
\* was answered with Technetium and its isotope
C14_Witness ==
  /\ request = [route |-> "isotope", symbol |-> "he", isotopeId |-> "H-1"]
  /\ \E i \in 1..Len(moduleElements) : IsotopesMatching(moduleElements[i], "H-1") # {}
  /\ IsIsotopeNotFound(response, "he", "H-1")
  /\ earlier # Null
  /\ earlier.request = [route |-> "isotope", symbol |-> "tc", isotopeId |-> "Tc-99"]
  /\ earlier.response.status = 200
  /\ earlier.response.body.element.symbol = "Tc"
  /\ earlier.response.body.isotope.id = "Tc-99"

\* C15: whatever requests were answered, the elements array and its records
\* are as module initialisation left them, and a request that was answered
\* before receives the answer it received then.
C15_DatasetReadOnly ==
  /\ moduleElements = elements
  /\ (earlier # Null /\ earlier.request = request) => earlier.response = response

\* an isotope request is answered a second time, found
C15_Witness ==
  /\ earlier # Null
  /\ request # Null
  /\ earlier.request = request
  /\ request.route = "isotope"
  /\ response.status = 200

\* C16: every element of the dataset has a positive atomic number, atomic
\* numbers and symbols are unique across the elements, symbols also when
\* compared case-insensitively, and the lookup of a requested symbol matches
\* at most one element.
C16_SymbolsUnique ==
  LET all == 1..Len(moduleElements)
  IN  /\ \A i \in all : moduleElements[i].atomicNumber > 0
      /\ Cardinality({moduleElements[i].atomicNumber : i \in all}) = Len(moduleElements)
      /\ Cardinality({moduleElements[i].symbol : i \in all}) = Len(moduleElements)
      /\ Cardinality({toLowerCase(moduleElements[i].symbol) : i \in all}) = Len(moduleElements)
      /\ (request # Null /\ "symbol" \in DOMAIN request) =>
           Cardinality({i \in all :
                          symbolTest(moduleElements[i], toLowerCase(request.symbol))}) <= 1

\* the lookup of "HE" matches Helium alone among the 118 elements
C16_Witness ==
  /\ Len(moduleElements) = 118
  /\ request = [route |-> "element", symbol |-> "HE"]
  /\ {i \in 1..Len(moduleElements) :
        symbolTest(moduleElements[i], toLowerCase(request.symbol))} = {2}
  /\ response.body = moduleElements[2]

----------------------------------------------------------------------------
(* components/PeriodicTable.tsx: the palettes of the categories            *)

\* Object.entries(categoryPalette): the entries in the order of the literal
categoryPalette ==
  <<
    [key |-> "alkali metal",
     palette |-> [gradient |-> <<"#fb923c", "#facc15", "#fef08a">>, accent |-> "#ea580c",
                  shadow |-> "rgba(249, 115, 22, 0.45)",
                  ring |-> "rgba(249, 115, 22, 0.35)"]],
    [key |-> "alkaline earth metal",
     palette |-> [gradient |-> <<"#bef264", "#4ade80", "#34d399">>, accent |-> "#65a30d",
                  shadow |-> "rgba(132, 204, 22, 0.45)",
                  ring |-> "rgba(132, 204, 22, 0.35)"]],
    [key |-> "metalloid",
     palette |-> [gradient |-> <<"#34d399", "#22d3ee", "#0ea5e9">>, accent |-> "#0f766e",
                  shadow |-> "rgba(13, 148, 136, 0.45)",
                  ring |-> "rgba(13, 148, 136, 0.35)"]],
    [key |-> "polyatomic nonmetal",
     palette |-> [gradient |-> <<"#22d3ee", "#818cf8", "#c4b5fd">>, accent |-> "#2563eb",
                  shadow |-> "rgba(59, 130, 246, 0.45)",
                  ring |-> "rgba(59, 130, 246, 0.35)"]],
    [key |-> "diatomic nonmetal",
     palette |-> [gradient |-> <<"#38bdf8", "#c084fc", "#f472b6">>, accent |-> "#0284c7",
                  shadow |-> "rgba(14, 165, 233, 0.45)",
                  ring |-> "rgba(14, 165, 233, 0.35)"]],
    [key |-> "transition metal",
     palette |-> [gradient |-> <<"#d1d5db", "#9ca3af", "#6b7280">>, accent |-> "#374151",
                  shadow |-> "rgba(107, 114, 128, 0.45)",
                  ring |-> "rgba(107, 114, 128, 0.35)"]],
    [key |-> "halogen",
     palette |-> [gradient |-> <<"#f472b6", "#fb7185", "#fca5a5">>, accent |-> "#db2777",
                  shadow |-> "rgba(244, 114, 182, 0.45)",
                  ring |-> "rgba(244, 114, 182, 0.35)"]],
    [key |-> "noble gas",
     palette |-> [gradient |-> <<"#8b5cf6", "#6366f1", "#60a5fa">>, accent |-> "#4338ca",
                  shadow |-> "rgba(99, 102, 241, 0.45)",
                  ring |-> "rgba(99, 102, 241, 0.35)"]],
    [key |-> "post-transition metal",
     palette |-> [gradient |-> <<"#cbd5f5", "#e0e7ff", "#f5f3ff">>, accent |-> "#475569",
                  shadow |-> "rgba(148, 163, 184, 0.35)",
                  ring |-> "rgba(148, 163, 184, 0.35)"]]
  >>

defaultPalette ==
  [gradient |-> <<"#e2e8f0", "#f8fafc", "#ffffff">>, accent |-> "#1e293b",
   shadow |-> "rgba(100, 116, 139, 0.35)",
   ring |-> "rgba(100, 116, 139, 0.25)"]

\* String.prototype.includes
includes(str, searchString) ==
  \E i \in 1..(Len(str) - Len(searchString) + 1) :
    SubSeq(str, i, i + Len(searchString) - 1) = searchString

\* the first entry whose key the lowercased category includes, or the default
pickPalette(categoryArg) ==
  LET lower == toLowerCase(categoryArg)
      hits == {i \in 1..Len(categoryPalette) : includes(lower, categoryPalette[i].key)}
  IN  IF hits = {} THEN defaultPalette
      ELSE categoryPalette[CHOOSE i \in hits : \A j \in hits : i <= j].palette

\* the categories pickPalette is called with: the keys of the table in lower
\* case, in upper case and capitalised, alone and inside a longer category,
\* and categories that contain no key
KeySpellings ==
  {categoryPalette[i].key : i \in 1..Len(categoryPalette)}
  \cup {"ALKALI METAL", "ALKALINE EARTH METAL", "METALLOID", "POLYATOMIC NONMETAL",
        "DIATOMIC NONMETAL", "TRANSITION METAL", "HALOGEN", "NOBLE GAS",
        "POST-TRANSITION METAL"}
  \cup {"Alkali Metal", "Alkaline Earth Metal", "Metalloid", "Polyatomic Nonmetal",
        "Diatomic Nonmetal", "Transition Metal", "Halogen", "Noble Gas",
        "Post-Transition Metal"}

Categories ==
  {prefix \o spelling :
     prefix \in {"", "unknown, probably ", "unknown, but predicted to be an "},
     spelling \in KeySpellings}
  \cup {"lanthanide", "actinide", "Lanthanide", "unknown", "metal", "nonmetal", "drawn", ""}

InitPalette ==
  /\ moduleElements = <<>>
  /\ moduleIsotopes = <<>>
  /\ UiIdle
  /\ ServerIdle
  /\ TableIdle
  /\ category \in Categories
  /\ palette = Null

\* pickPalette(category)
PickPalette ==
  /\ palette = Null
  /\ palette' = pickPalette(category)
  /\ UNCHANGED <<category, dataVars, uiVars, serverVars, tableVars>>

NextPalette == PickPalette

SpecPalette == InitPalette /\ [][NextPalette]_vars

\* the category is the key of an entry, in any letter case
IsKey(i) == SameIgnoringCase(category, categoryPalette[i].key)

\* the category contains the key of an entry, in any letter case
ContainsKey(i) ==
  \E from \in 1..Len(category) :
    LET to == from + Len(categoryPalette[i].key) - 1
    IN  /\ to <= Len(category)
        /\ SameIgnoringCase(SubSeq(category, from, to), categoryPalette[i].key)

\* C23: pickPalette selects each table entry for its own category: for a
\* category that is a key of categoryPalette in any letter case it returns
\* that key's entry, and for a category that contains no key it returns
\* defaultPalette.
C23_OwnPalette ==
  palette # Null =>
    /\ \A i \in 1..Len(categoryPalette) : IsKey(i) => palette = categoryPalette[i].palette
    /\ (\A i \in 1..Len(categoryPalette) : ~ContainsKey(i)) => palette = defaultPalette

----------------------------------------------------------------------------
(* components/PeriodicTable.tsx and lib/api.ts: loading the table          *)

MaxFetched == 3

\* a string held in state that may also be null
Str(text) == [string |-> text]

\* JavaScript truthiness of string | null
Truthy(value) == value # Null /\ value.string # ""

\* what fetch() and res.json() can hand to fetchElements: a rejection with
\* its reason, a response that is not ok, or an ok response with its body
FetchPool == {elements[1], elements[2], elements[3], BareElement}

FetchedData ==
  {data \in SeqsUpTo(FetchPool, MaxFetched) :
     \A i, j \in 1..Len(data) : i # j => data[i] # data[j]}

Reasons == {[isError |-> TRUE, message |-> "Failed to fetch"], [isError |-> FALSE]}

Fetched ==
  {[kind |-> "rejected", reason |-> reason] : reason \in Reasons}
  \cup {[kind |-> "response", ok |-> FALSE, statusText |-> text] :
          text \in {"Not Found", "Internal Server Error", ""}}
  \cup {[kind |-> "response", ok |-> TRUE, statusText |-> "OK", json |-> data] :
          data \in FetchedData}

\* fetchElements: the value the promise resolves to, or what it throws
fetchElements(fetched) ==
  IF fetched.kind = "rejected" THEN [thrown |-> fetched.reason]
  ELSE IF ~fetched.ok
       THEN [thrown |-> [isError |-> TRUE,
                         message |-> "Failed to load elements: " \o fetched.statusText]]
       ELSE [value |-> fetched.json]

\* err instanceof Error ? err.message : "Unable to load periodic data."
errorMessage(err) ==
  IF err.isError THEN err.message ELSE "Unable to load periodic data."

\* data.sort((a, b) => a.atomicNumber - b.atomicNumber): stable
RECURSIVE sortInsert(_, _)
sortInsert(sorted, item) ==
  IF sorted = <<>> THEN <<item>>
  ELSE IF Head(sorted).atomicNumber - item.atomicNumber <= 0
       THEN <<Head(sorted)>> \o sortInsert(Tail(sorted), item)
       ELSE <<item>> \o sorted

RECURSIVE sortByAtomicNumber(_)
sortByAtomicNumber(data) ==
  IF data = <<>> THEN <<>>
  ELSE sortInsert(sortByAtomicNumber(SubSeq(data, 1, Len(data) - 1)), data[Len(data)])

\* tableGrid and the body of the table: the loading state, the error state
\* and the grid, each rendered or not
tableGrid(els) ==
  [i \in 1..Len(els) |->
     [element |-> els[i], palette |-> pickPalette(els[i].category), key |-> els[i].symbol,
      gridColumn |-> els[i].group, gridRow |-> els[i].period]]

RenderTable_gridUnlessLoading(els, isLoading, err) ==
  [loadingState |-> isLoading,
   errorState |-> IF Truthy(err) THEN [message |-> err.string] ELSE Null,
   grid |-> IF ~isLoading THEN [tiles |-> tableGrid(els)] ELSE Null]

RenderTable(els, isLoading, err) ==
  [loadingState |-> isLoading,
   errorState |-> IF Truthy(err) THEN [message |-> err.string] ELSE Null,
   grid |-> IF ~isLoading /\ ~Truthy(err) THEN [tiles |-> tableGrid(els)] ELSE Null]

InitTable ==
  /\ moduleElements = <<>>
  /\ moduleIsotopes = <<>>
  /\ UiIdle
  /\ ServerIdle
  /\ TableIdle
  /\ PaletteIdle

\* the first render and its effect: load() calls fetchElements
Mount ==
  /\ load = [phase |-> "idle"]
  /\ tableView' = RenderTable(tableElements, loading, error)
  /\ fetchCalls' = fetchCalls + 1
  /\ load' = [phase |-> "fetching"]
  /\ UNCHANGED <<paletteVars, tableElements, loading, error, dataVars, uiVars, serverVars>>

\* load() after the await: try, catch and finally, then the render
LoadSettles_tryOnly(fetched) ==
  LET result == fetchElements(fetched)
  IN  /\ load = [phase |-> "fetching"]
      /\ IF "value" \in DOMAIN result
         THEN /\ tableElements' = sortByAtomicNumber(result.value)
              /\ error' = error
              /\ loading' = FALSE
         ELSE /\ tableElements' = tableElements
              /\ error' = Str(errorMessage(result.thrown))
              /\ loading' = loading
      /\ load' = [phase |-> "settled", fetched |-> fetched]
      /\ tableView' = RenderTable(tableElements', loading', error')
      /\ UNCHANGED <<paletteVars, fetchCalls, dataVars, uiVars, serverVars>>

LoadSettles(fetched) ==
  LET result == fetchElements(fetched)
  IN  /\ load = [phase |-> "fetching"]
      /\ IF "value" \in DOMAIN result
         THEN /\ tableElements' = sortByAtomicNumber(result.value)
              /\ error' = error
         ELSE /\ tableElements' = tableElements
              /\ error' = Str(errorMessage(result.thrown))
      /\ loading' = FALSE
      /\ load' = [phase |-> "settled", fetched |-> fetched]
      /\ tableView' = RenderTable(tableElements', loading', error')
      /\ UNCHANGED <<paletteVars, fetchCalls, dataVars, uiVars, serverVars>>

\* onClick of tile i of the grid
TableTileClick_keepsIsotope(i) ==
  /\ tableView # Null
  /\ tableView.grid # Null
  /\ i \in DOMAIN tableView.grid.tiles
  /\ element' = tableView.grid.tiles[i].element
  /\ activeElement' = element'
  /\ activeIsotope' = IF activeIsotope # Null THEN activeIsotope
                      ELSE IF Len(element'.isotopes) > 0 THEN element'.isotopes[1] ELSE Null
  /\ RenderModal(activeElement', activeIsotope')
  /\ UNCHANGED <<paletteVars, dataVars, serverVars, tableVars>>

TableTileClick(i) ==
  /\ tableView # Null
  /\ tableView.grid # Null
  /\ i \in DOMAIN tableView.grid.tiles
  /\ element' = tableView.grid.tiles[i].element
  /\ activeElement' = element'
  /\ activeIsotope' = IF Len(element'.isotopes) > 0 THEN element'.isotopes[1] ELSE Null
  /\ RenderModal(activeElement', activeIsotope')
  /\ UNCHANGED <<paletteVars, dataVars, serverVars, tableVars>>

NextTable ==
  \/ Mount
  \/ \E fetched \in Fetched : LoadSettles(fetched)
  \/ \E i \in 1..Len(tableElements) : TableTileClick(i)
  \/ (ModalShown /\ \E i \in DOMAIN activeElement.isotopes :
                      OnSelectIsotope(activeElement.isotopes[i]))
  \/ OnClose

SpecTable == InitTable /\ [][NextTable]_vars

----------------------------------------------------------------------------
(* Properties of the loading table (SpecTable)                             *)

\* the load settled with a failure: fetch rejected, or the response was not ok
LoadFailed ==
  /\ load.phase = "settled"
  /\ \/ load.fetched.kind = "rejected"
     \/ load.fetched.kind = "response" /\ ~load.fetched.ok

\* C18: when loading the element list fails (network error or non-OK
\* response), the error state holds the message, the loading indicator is
\* removed, the error message is displayed and the grid is not, and
\* fetchElements was called exactly once since the mount.
C18_LoadFailureShown ==
  /\ load.phase # "idle" => fetchCalls = 1
  /\ LoadFailed =>
       /\ error # Null
       /\ error.string # ""
       /\ (load.fetched.kind = "response") =>
            error.string = "Failed to load elements: " \o load.fetched.statusText
       /\ (load.fetched.kind = "rejected" /\ load.fetched.reason.isError) =>
            error.string = load.fetched.reason.message
       /\ loading = FALSE
       /\ tableView.loadingState = FALSE
       /\ tableView.errorState = [message |-> error.string]
       /\ tableView.grid = Null
       /\ tableElements = <<>>
       /\ fetchCalls = 1

\* a 404 of the list route is on display
C18_Witness ==
  /\ LoadFailed
  /\ load.fetched.kind = "response"
  /\ load.fetched.statusText = "Not Found"
  /\ tableView.errorState = [message |-> "Failed to load elements: Not Found"]
  /\ tableView.grid = Null
  /\ fetchCalls = 1

----------------------------------------------------------------------------
(* Ring geometry and orbit periods of the rendered modal (Spec)            *)

\* min(120, max(72, 54 + 6 * shellCount)) by cases
NucleusSizeByCases(shellCount) ==
  IF shellCount <= 3 THEN 72
  ELSE IF shellCount >= 11 THEN 120
  ELSE 54 + 6 * shellCount

\* C19: in the Bohr view of an isotope with at least one shell, nucleusSize
\* is min(120, max(72, 54 + 6 * shellCount)), between 72 and 120,
\* nucleusRadius is half of it, orbitSpacing is
\* (diagramSize / 2 - 20 - nucleusRadius) / shellCount, and the ring of shell
\* index i has radius nucleusRadius + orbitSpacing * (i + 1): it is that wide
\* twice and its electrons sit at that distance.
C19_BohrRingRadius ==
  (ModalShown /\ Len(ShownShells) >= 1) =>
    LET shellCount == Len(ShownShells)
        expectedRadius(index) ==
          Add(bohrView.nucleusRadius, Mul(bohrView.orbitSpacing, Num(index + 1)))
    IN  /\ bohrView.nucleusSize = NucleusSizeByCases(shellCount)
        /\ bohrView.nucleusSize >= 72
        /\ bohrView.nucleusSize <= 120
        /\ Mul(bohrView.nucleusRadius, Num(2)) = Num(bohrView.nucleusSize)
        /\ Add(Mul(bohrView.orbitSpacing, Num(shellCount)),
               Add(bohrView.nucleusRadius, Num(20)))
             = Div(Num(bohrView.diagramSize), Num(2))
        /\ Len(bohrView.shells) = shellCount
        /\ \A i \in 1..shellCount :
             /\ bohrView.shells[i].width = Mul(expectedRadius(i - 1), Num(2))
             /\ \A k \in DOMAIN BohrElectrons(i) :
                  BohrElectrons(i)[k].translateX = expectedRadius(i - 1)

\* twelve shells: the nucleus is capped at 120, the spacing is 160 / 12 and
\* the outermost ring is 440 wide; its electron sits 220 from the centre
C19_Witness ==
  /\ ModalShown
  /\ Len(ShownShells) = 12
  /\ bohrView.nucleusSize = 120
  /\ bohrView.diagramSize = 480
  /\ bohrView.orbitSpacing = Frac(40, 3)
  /\ bohrView.shells[12].width = Num(440)
  /\ bohrView.shells[1].width = Div(Num(440), Num(3))
  /\ bohrView.shells[12].electrons[1].translateX = Num(220)

\* C20: the orbit period of shell index i is 14 + 5 * i seconds in the Bohr
\* view and 18 + 6 * i seconds in the arena whatever the electron counts, so
\* it strictly increases with the shell index.
C20_PeriodIncreases ==
  ModalShown =>
    /\ \A i \in DOMAIN ShownShells :
         /\ bohrView.shells[i].animationDuration = 14 + 5 * (i - 1)
         /\ arenaView.orbits[i].animationDuration = 18 + 6 * (i - 1)
    /\ \A i, j \in DOMAIN ShownShells :
         i < j => /\ bohrView.shells[i].animationDuration
                       < bohrView.shells[j].animationDuration
                  /\ arenaView.orbits[i].animationDuration
                       < arenaView.orbits[j].animationDuration

\* two shells with more electrons inside than outside, shown after another
\* isotope: the outer ring is the slower one
C20_Witness ==
  /\ ModalShown
  /\ ShownShells = <<3, 1>>
  /\ bohrView.shells[1].animationDuration = 14
  /\ bohrView.shells[2].animationDuration = 19
  /\ arenaView.orbits[1].animationDuration = 18
  /\ arenaView.orbits[2].animationDuration = 24
  /\ memo.otherSince

----------------------------------------------------------------------------
(* The nucleus swarm of the rendered arena (Spec)                          *)

\* the markers of the swarm drawn in the proton colour
ProtonColoured ==
  {k \in DOMAIN arenaView.swarm : arenaView.swarm[k].background = "#fb7185"}

\* C21: the swarm markers alternate by the parity of their index, not by the
\* proton and neutron counts: marker i (from 0) is proton-coloured exactly
\* when i is even, so ceil(total / 2) of the total = min(protons + neutrons,
\* 28) markers are proton-coloured; marker i sits at the fraction i / total
\* of a full turn, so no two markers share an angle.
C21_SwarmAlternates ==
  ModalShown =>
    LET swarm == arenaView.swarm
        nucleons == activeIsotope.particleBreakdown.protons
                    + activeIsotope.particleBreakdown.neutrons
        total == IF nucleons <= 28 THEN nucleons ELSE 28
    IN  /\ Len(swarm) = total
        /\ \A k \in DOMAIN swarm :
             /\ swarm[k].isProton <=> (k - 1) % 2 = 0
             /\ swarm[k].background = (IF (k - 1) % 2 = 0 THEN "#fb7185" ELSE "#38bdf8")
             /\ Mul(swarm[k].turn, Num(total)) = Num(k - 1)
             /\ Less(swarm[k].turn, Num(1))
        /\ Cardinality(ProtonColoured) = (total + 1) \div 2
        /\ \A k, l \in DOMAIN swarm : k # l => swarm[k].turn # swarm[l].turn

\* an isotope without protons and with eight neutrons is shown: four of its
\* eight markers are proton-coloured
C21_Witness ==
  /\ ModalShown
  /\ activeIsotope.particleBreakdown.protons = 0
  /\ activeIsotope.particleBreakdown.neutrons = 8
  /\ Len(arenaView.swarm) = 8
  /\ Cardinality(ProtonColoured) = 4
  /\ arenaView.swarm[4].turn = Frac(3, 8)

----------------------------------------------------------------------------
(* Reachability of the isotopes through the isotope route (SpecServer)     *)

\* C22: every isotope of the dataset is reachable through the isotope route:
\* a request naming an element's symbol and the id of one of its isotopes, in
\* any letter case, is answered with that element and that same isotope
\* record.
C22_EveryIsotopeReachable ==
  (request # Null /\ request.route = "isotope") =>
    \A e \in ElementsMatching(request.symbol) :
      \A k \in IsotopesMatching(moduleElements[e], request.isotopeId) :
        /\ response.status = 200
        /\ response.body.element = moduleElements[e]
        /\ response.body.isotope = moduleElements[e].isotopes[k]

----------------------------------------------------------------------------
(* The cells of the grid (SpecData)                                        *)

\* C24: every element of the dataset has its group in 1..18 and its period
\* in 1..7, and no two elements share the pair (group, period), so each tile,
\* placed at gridColumn = group and gridRow = period, has a cell of its own.
C24_OwnCell ==
  /\ \A e \in 1..Len(moduleElements) :
       /\ moduleElements[e].group \in 1..18
       /\ moduleElements[e].period \in 1..7
  /\ LET tiles == tableGrid(moduleElements)
     IN  Cardinality({<<tiles[e].gridColumn, tiles[e].gridRow>> : e \in 1..Len(tiles)})
           = Len(moduleElements)

----------------------------------------------------------------------------
(* The selection state of the table (SpecTable)                            *)

\* the modal is on display: both of its views are rendered
ModalDisplayed == bohrView # Null /\ arenaView # Null

\* C25: after any sequence of tile clicks, isotope selections and modal
\* closes, activeIsotope is non-null only if activeElement is, a non-null
\* activeIsotope is one of activeElement.isotopes, and the modal is displayed
\* exactly when both are non-null.
C25_SelectionConsistent ==
  /\ activeIsotope # Null => activeElement # Null
  /\ activeIsotope # Null =>
       \E k \in 1..Len(activeElement.isotopes) : activeElement.isotopes[k] = activeIsotope
  /\ ModalDisplayed <=> (activeElement # Null /\ activeIsotope # Null)
  /\ (bohrView = Null) <=> (arenaView = Null)

\* Helium's second isotope is shown, selected after Helium's tile was clicked
\* while the modal had first shown Hydrogen
C25_Witness ==
  /\ activeElement # Null
  /\ activeIsotope # Null
  /\ activeElement.symbol = "He"
  /\ activeIsotope = activeElement.isotopes[2]
  /\ ModalDisplayed
  /\ memo.isotope.id = "H-1"

\* C26: a click on a tile sets activeElement to the tile's element and
\* activeIsotope to its first isotope, whatever was selected before, or to
\* null (no modal) when it has no isotopes; selecting an isotope changes
\* activeIsotope only; closing resets both to null; none of the three changes
\* elements, loading or error.
C26_ClickEffects ==
  [][/\ \A i \in 1..Len(tableElements) :
          TableTileClick(i) =>
            /\ activeElement' = tableElements[i]
            /\ activeIsotope' = (IF tableElements[i].isotopes = <<>> THEN Null
                                 ELSE tableElements[i].isotopes[1])
            /\ tableElements[i].isotopes = <<>> => ~ModalDisplayed'
            /\ UNCHANGED <<tableElements, loading, error>>
     /\ ModalShown =>
          \A k \in DOMAIN activeElement.isotopes :
            OnSelectIsotope(activeElement.isotopes[k]) =>
              /\ activeIsotope' = activeElement.isotopes[k]
              /\ UNCHANGED <<activeElement, tableElements, loading, error>>
     /\ OnClose =>
          /\ activeElement' = Null
          /\ activeIsotope' = Null
          /\ UNCHANGED <<tableElements, loading, error>>
    ]_vars

\* the tile of an element without isotopes was clicked after a modal had been
\* shown: the element is active, no isotope is, and no modal is displayed
C26_Witness ==
  /\ activeElement = BareElement
  /\ activeIsotope = Null
  /\ ~ModalDisplayed
  /\ memo # <<>>
  /\ loading = FALSE
  /\ error = Null

----------------------------------------------------------------------------
(* The table after its load has settled (SpecTable)                        *)

LoadSucceeded ==
  /\ load.phase = "settled"
  /\ load.fetched.kind = "response"
  /\ load.fetched.ok

\* once the load has settled, the loading indicator is gone and exactly one
\* of the error message and the grid is displayed
SettledShowsOne ==
  load.phase = "settled" =>
    /\ fetchCalls = 1
    /\ loading = FALSE
    /\ tableView.loadingState = FALSE
    /\ (tableView.errorState # Null) # (tableView.grid # Null)
    /\ LoadSucceeded =>
         /\ error = Null
         /\ tableView.grid # Null
         /\ Len(tableView.grid.tiles) = Len(load.fetched.json)
    /\ LoadFailed =>
         /\ error # Null
         /\ tableView.errorState = [message |-> error.string]

\* C27: once the single fetchElements call has settled, the table is in a
\* state with loading = false in which exactly one of the error message and
\* the grid is displayed, the grid after success (error = null), the error
\* message after failure; and loading, once false, never becomes true again.
C27_SettledForGood ==
  /\ []SettledShowsOne
  /\ [][(loading = FALSE => loading' = FALSE)
        /\ (load.phase = "settled" => load' = load)]_vars

\* a list fetched out of order is on display, sorted, a tile having been
\* clicked since
C27_Witness ==
  /\ LoadSucceeded
  /\ Len(load.fetched.json) = 3
  /\ load.fetched.json[1].atomicNumber > load.fetched.json[3].atomicNumber
  /\ loading = FALSE
  /\ error = Null
  /\ tableView.grid # Null
  /\ tableView.grid.tiles[1].element.atomicNumber <= tableView.grid.tiles[3].element.atomicNumber
  /\ tableView.errorState = Null
  /\ activeElement # Null

----------------------------------------------------------------------------
(* The rings inside their canvas (Spec)                                    *)

\* min(460, 360 + max(shellCount - 3, 0) * 42) by cases
StageSizeByCases(shellCount) ==
  IF shellCount <= 3 THEN 360
  ELSE IF shellCount >= 6 THEN 460
  ELSE 360 + 42 * (shellCount - 3)

\* min(150, 120 + 0.35 * min(protons, 60)) by cases
ArenaNucleusSizeByCases(protons) ==
  IF protons >= 60 THEN Num(141) ELSE Frac(12000 + 35 * protons, 100)

\* rings of the given widths around a nucleus: positive spacing, radii
\* strictly increasing from outside the nucleus to exactly the outer radius,
\* every ring within the canvas
RingsFit(rings, nucleusRadius, orbitSpacing, outerRadius, canvas) ==
  LET radius(i) == Div(rings[i].width, Num(2))
  IN  /\ Less(Num(0), orbitSpacing)
      /\ \A i, j \in DOMAIN rings : i < j => Less(radius(i), radius(j))
      /\ Less(nucleusRadius, radius(1))
      /\ radius(Len(rings)) = outerRadius
      /\ \A i \in DOMAIN rings :
           /\ ~Less(Num(canvas), rings[i].width)
           /\ \A k \in DOMAIN rings[i].electrons :
                rings[i].electrons[k].translateX = radius(i)

----------------------------------------------------------------------------
(* The particle breakdown of every isotope of the catalogue (Spec)         *)

\* the particle breakdowns buildIsotope gave the isotopes of the element
ElementBreakdowns ==
  {element.isotopes[i].particleBreakdown : i \in 1..Len(element.isotopes)}

\* C29: particleBreakdown.electrons is never negative: for every atomic
\* number and every positron count buildIsotope yields electrons =
\* max(protons - positrons, 0), which is 0 whenever positrons >= protons.
C29_ElectronsNeverNegative ==
  \A pb \in ElementBreakdowns :
    /\ pb.electrons >= 0
    /\ pb.electrons = (IF pb.protons - pb.positrons >= 0
                       THEN pb.protons - pb.positrons ELSE 0)
    /\ pb.positrons >= pb.protons => pb.electrons = 0
    /\ pb.protons = element.atomicNumber

\* an isotope of 9 protons declared with 30 positrons is shown with 0
\* electrons
C29_Witness ==
  /\ ModalShown
  /\ activeIsotope.particleBreakdown.protons = 9
  /\ activeIsotope.particleBreakdown.positrons = 30
  /\ activeIsotope.particleBreakdown.electrons = 0
  /\ activeIsotope.particleBreakdown \in ElementBreakdowns
  /\ arenaView.rows.electrons = 0

\* C30: for every isotope built by buildIsotope the quark counts add up to
\* three per nucleon, quarks.up + quarks.down = 3 * (protons + neutrons), and
\* quarks.up - quarks.down = protons - neutrons.
C30_ThreeQuarksPerNucleon ==
  \A pb \in ElementBreakdowns :
    /\ pb.quarks.up + pb.quarks.down = 3 * (pb.protons + pb.neutrons)
    /\ pb.quarks.up - pb.quarks.down = pb.protons - pb.neutrons

\* Oganesson-294 is shown: 118 protons and 176 neutrons, 412 up and 470 down
\* quarks, 882 in all
C30_Witness ==
  /\ ModalShown
  /\ activeIsotope.id = "Og-294"
  /\ activeIsotope.particleBreakdown \in ElementBreakdowns
  /\ activeIsotope.particleBreakdown.quarks = [up |-> 412, down |-> 470]
  /\ arenaView.rows.quarks.up + arenaView.rows.quarks.down = 882

====
